---- MODULE Spec2Model ----
(***************************************************************************)
(* Model of the worksheet-update and print-to-PDF engine of                *)
(* ldcc1_processor.py (class ExcelWorksheetPDFGenerator).                  *)
(*                                                                         *)
(* and of the weekly procedure of class LDCC1Processor that drives it.     *)
(*                                                                         *)
(* The specifications share the definitions below:                         *)
(*   SpecMut    - the worksheet mutators (_update_worksheet_header,        *)
(*                _find_data_start_row, _update_worksheet_data,            *)
(*                _add_processing_notes) run step by step on one worksheet;*)
(*   Spec       - one generator object, its throttle counters, the files   *)
(*                on disk and the sequence of calls made by a caller;      *)
(*   SpecRender - one call of any entry point in any environment;          *)
(*   SpecBurst  - a few calls in a row, some leaving a working copy;       *)
(*   SpecProc   - start_processing and generate_six_month_balance_update.  *)
(***************************************************************************)
EXTENDS Integers, Sequences, FiniteSets, TLC

VARIABLES
    ws,        \* SpecMut: the worksheet being mutated (openpyxl's _cells)
    data,      \* SpecMut: the DataFrame handed to the mutators
    mpc,       \* SpecMut: position in the update-and-write sequence
    run,       \* SpecMut: how many update-and-write sequences have completed
    snap,      \* SpecMut: the worksheet as it was after the first sequence
    found,     \* SpecMut: last value returned by _find_data_start_row
    mlog,      \* SpecMut: what the last mutator step reported or raised
    count,     \* Spec: _pdf_generation_count, pdf_key -> attempts
    fs,        \* Spec: the files on disk
    last,      \* Spec: observation of the last completed call
    hist,      \* Spec: per pdf_key totals over all calls so far
    ncalls,    \* Spec: number of calls made so far
    nfaults,   \* Spec: number of calls that met an environment fault so far
    gui,       \* Spec: GUI_AVAILABLE, fixed when the module is imported
    ppc,       \* SpecProc: position of start_processing in the procedure
    trail,     \* SpecProc: the procedure steps entered so far, in order
    generating \* SpecProc: the attribute _generating_six_month_update

mvars == <<ws, data, mpc, run, snap, found, mlog>>
pvars == <<ppc, trail, generating>>
gvars == <<count, fs, last, hist, ncalls, nfaults, gui, ppc, trail, generating>>
vars == <<ws, data, mpc, run, snap, found, mlog, count, fs, last, hist, ncalls, nfaults, gui,
          ppc, trail, generating>>

Max(S) == CHOOSE x \in S : \A y \in S : y <= x
Min2(a, b) == IF a <= b THEN a ELSE b

(***************************************************************************)
(* Cell values.  k is the Python type of the value, s its text (the        *)
(* literal part of an f-string for generated texts), n its number (for a   *)
(* generated text: the timestamp that was formatted into it).              *)
(***************************************************************************)
NoneV == [k |-> "none", s |-> "", n |-> 0]
NaNV == [k |-> "nan", s |-> "", n |-> 0]
StrV(t) == [k |-> "str", s |-> t, n |-> 0]
FmtV(prefix, t) == [k |-> "str", s |-> prefix, n |-> t]
IntV(i) == [k |-> "int", s |-> "", n |-> i]
FloatV(i) == [k |-> "float", s |-> "", n |-> i]
DateV(i) == [k |-> "date", s |-> "", n |-> i]

\* Python truthiness of a cell value: None, "", 0 and 0.0 are false.
Truthy(v) ==
    CASE v.k = "none" -> FALSE
      [] v.k = "str" -> ~(v.s = "" /\ v.n = 0)
      [] v.k \in {"int", "float"} -> v.n # 0
      [] OTHER -> TRUE

\* pd.notna(value)
NotNa(v) == v.k \notin {"none", "nan"}

(***************************************************************************)
(* The texts of the model and the keywords their lower-cased form          *)
(* contains (Python's `keyword in cell_text`).                             *)
(***************************************************************************)
TitleKeywords == {"balance", "benefit", "client", "fund", "sheet", "report"}
DateKeywords == {"date", "generated", "updated", "time"}

KeywordsIn(s) ==
    CASE s = "Balance Report" -> {"balance", "report"}
      [] s = "Balance before benefits" -> {"balance", "benefit"}
      [] s = "Balance after benefits" -> {"balance", "benefit"}
      [] s = "LD Clients Account - Balance before interest" -> {"balance", "client"}
      [] s = "LD Clients Account - Balance after interest" -> {"balance", "client"}
      [] s = "6-Month Balance Update" -> {"balance", "date"}
      [] s = "Balance_After_Interest" -> {"balance"}
      [] s = "Weekly Benefits" -> {"benefit"}
      [] s = "Client Funds" -> {"client", "fund"}
      [] s = "Client" -> {"client"}
      [] s = "Client A" -> {"client"}
      [] s = "Client B" -> {"client"}
      [] s = "LD Clients Cash Bank Reconciliation" -> {"client"}
      [] s = "Bank Balance:" -> {"balance"}
      [] s = "=== Reconciliation Update" -> {"date"}
      [] s = "Balance" -> {"balance"}
      [] s = "Report" -> {"report"}
      [] s = "b.pdf_Report" -> {"report"}
      [] s = "Date" -> {"date"}
      [] s = "Date:" -> {"date"}
      [] s = "Updated: " -> {"updated", "date"}
      [] s = "Generated: " -> {"generated"}
      [] OTHER -> {}

(***************************************************************************)
(* Worksheet: openpyxl's _cells, a map from (row, column) to a cell.  A    *)
(* cell exists once it has been read or written; m marks a MergedCell, a   *)
(* non-anchor member of a merged range, whose value is None and read-only. *)
(***************************************************************************)
Cell(v) == [v |-> v, m |-> FALSE]
MergedCell == [v |-> NoneV, m |-> TRUE]

max_row(w) == IF DOMAIN w = {} THEN 1 ELSE Max({p[1] : p \in DOMAIN w})
max_column(w) == IF DOMAIN w = {} THEN 1 ELSE Max({p[2] : p \in DOMAIN w})

\* worksheet.cell(row, column): creates the cell when it does not exist
cell(w, r, c) == IF <<r, c>> \in DOMAIN w THEN w ELSE (<<r, c>> :> Cell(NoneV)) @@ w
Value(w, r, c) == IF <<r, c>> \in DOMAIN w THEN w[<<r, c>>].v ELSE NoneV
IsMerged(w, r, c) == <<r, c>> \in DOMAIN w /\ w[<<r, c>>].m

\* cell.value = v.  MergedCell.value is read-only: the assignment raises
\* AttributeError and stores nothing.
SetValue(w, r, c, v) ==
    IF IsMerged(w, r, c)
    THEN [w |-> w, raised |-> TRUE]
    ELSE [w |-> (<<r, c>> :> Cell(v)) @@ w, raised |-> FALSE]

\* workbook.save(path) followed by load_workbook(path): cells without a value
\* are not written, merged ranges are.
SaveLoad(w) == [p \in {q \in DOMAIN w : w[q].m \/ w[q].v # NoneV} |-> w[p]]

\* the values a reader of the sheet sees
Contents(w) == SaveLoad(w)

(***************************************************************************)
(* DataFrames.  NoData is Python's None; a DataFrame has column names and  *)
(* rows of values.                                                         *)
(***************************************************************************)
NoData == [cols |-> <<>>, rows |-> <<>>, df |-> FALSE]
DataFrame(cols, rows) == [cols |-> cols, rows |-> rows, df |-> TRUE]
\* isinstance(data, pd.DataFrame) and not data.empty
HasRows(d) == d.df /\ Len(d.rows) > 0 /\ Len(d.cols) > 0

\* the result of a mutator: the worksheet, whether an exception left the
\* method, the MergedCells it was about to write, and those whose skipped
\* write it logged
MutResult(w, raised, targets, reported) ==
    [w |-> w, raised |-> raised, targets |-> targets, reported |-> reported]

(***************************************************************************)
(* _update_worksheet_header                                                *)
(***************************************************************************)
HeaderRows == 5
HeaderCols == 5

RECURSIVE header_row(_, _, _, _, _)
header_row(w, row, col, title, ts) ==
    IF col > HeaderCols THEN w
    ELSE LET w1 == cell(w, row, col)
             v == Value(w1, row, col)
         IN IF Truthy(v) /\ v.k = "str"
            THEN IF KeywordsIn(v.s) \cap TitleKeywords # {}
                 THEN SetValue(w1, row, col, StrV(title)).w      \* break
                 ELSE IF KeywordsIn(v.s) \cap DateKeywords # {}
                      THEN header_row(SetValue(w1, row, col, FmtV("Updated: ", ts)).w,
                                      row, col + 1, title, ts)
                      ELSE header_row(w1, row, col + 1, title, ts)
            ELSE header_row(w1, row, col + 1, title, ts)

RECURSIVE header_rows(_, _, _, _)
header_rows(w, row, title, ts) ==
    IF row > HeaderRows THEN w
    ELSE header_rows(header_row(w, row, 1, title, ts), row + 1, title, ts)

update_worksheet_header(w, title, ts) ==
    LET w1 == header_rows(w, 1, title, ts)
        a1 == Value(w1, 1, 1)
    IN IF a1.k # "str"
       THEN LET s1 == SetValue(cell(w1, 1, 1), 1, 1, StrV(title))
                s2 == SetValue(cell(s1.w, 2, 1), 2, 1, FmtV("Generated: ", ts))
            IN \* a MergedCell at A2 raises; the except clause logs a warning
               IF s2.raised
               THEN MutResult(s2.w, FALSE, {<<2, 1>>}, {<<2, 1>>})
               ELSE MutResult(s2.w, FALSE, {}, {})
       ELSE MutResult(w1, FALSE, {}, {})

(***************************************************************************)
(* _find_data_start_row                                                    *)
(***************************************************************************)
FirstScanRow == 3
ScanColLimit == 6
DefaultStartRow == 10

\* a scan of the first six columns
RECURSIVE row_is_empty_six(_, _, _)
row_is_empty_six(w, row, col) ==
    IF col >= Min2(ScanColLimit + 1, max_column(w) + 1)
    THEN [empty |-> TRUE, w |-> w]
    ELSE IF Value(w, row, col) = NoneV
         THEN row_is_empty_six(cell(w, row, col), row, col + 1)
         ELSE [empty |-> FALSE, w |-> cell(w, row, col)]

\* all(worksheet.cell(row, col).value is None for col in range(1, min(6, max_column + 1)))
RECURSIVE row_is_empty(_, _, _)
row_is_empty(w, row, col) ==
    IF col >= Min2(ScanColLimit, max_column(w) + 1)
    THEN [empty |-> TRUE, w |-> w]
    ELSE LET w1 == cell(w, row, col)
         IN IF Value(w1, row, col) = NoneV
            THEN row_is_empty(w1, row, col + 1)
            ELSE [empty |-> FALSE, w |-> w1]

RECURSIVE find_from(_, _, _)
find_from(w, row, stop) ==
    IF row >= stop THEN [row |-> DefaultStartRow, w |-> w]
    ELSE LET r == row_is_empty(w, row, 1)
         IN IF r.empty THEN [row |-> row, w |-> r.w]
            ELSE find_from(r.w, row + 1, stop)

\* for row in range(3, worksheet.max_row + 2): ... return row;  return 10
find_data_start_row(w) == find_from(w, FirstScanRow, max_row(w) + 2)

(***************************************************************************)
(* _update_worksheet_data                                                  *)
(***************************************************************************)
ClearMargin == 10
ClearColLimit == 13

RECURSIVE clear_row_cells(_, _, _)
clear_row_cells(acc, row, col) ==
    IF col >= Min2(max_column(acc.w) + 1, ClearColLimit) THEN acc
    ELSE LET w1 == cell(acc.w, row, col)
         IN IF IsMerged(w1, row, col)
            THEN clear_row_cells([acc EXCEPT !.w = w1,
                                             !.targets = @ \cup {<<row, col>>}],
                                 row, col + 1)
            ELSE clear_row_cells([acc EXCEPT !.w = SetValue(w1, row, col, NoneV).w],
                                 row, col + 1)

RECURSIVE clear_rows(_, _, _)
clear_rows(acc, row, stop) ==
    IF row >= stop THEN acc
    ELSE clear_rows(clear_row_cells(acc, row, 1), row + 1, stop)

\* the type conversion of one DataFrame value
Coerce(v) ==
    CASE v.k \in {"int", "float"} -> FloatV(v.n)
      [] v.k = "date" -> v
      [] OTHER -> v                         \* str(value) of a text

RECURSIVE write_row_cells(_, _, _, _)
write_row_cells(acc, row, values, i) ==
    IF i > Len(values) THEN acc
    ELSE IF ~NotNa(values[i]) THEN write_row_cells(acc, row, values, i + 1)
    ELSE LET w1 == cell(acc.w, row, i)
         IN IF IsMerged(w1, row, i)
            THEN write_row_cells([acc EXCEPT !.w = w1,
                                             !.targets = @ \cup {<<row, i>>},
                                             !.reported = @ \cup {<<row, i>>}],
                                 row, values, i + 1)
            ELSE write_row_cells([acc EXCEPT !.w = SetValue(w1, row, i, Coerce(values[i])).w],
                                 row, values, i + 1)

\* a write that ends with the first row in which a cell could not be written
RECURSIVE write_rows_until_failure(_, _, _, _)
write_rows_until_failure(acc, start_row, rows, idx) ==
    IF idx >= Len(rows) \/ acc.reported # {} THEN acc
    ELSE write_rows_until_failure(
             write_row_cells(acc, start_row + idx, rows[idx + 1], 1),
             start_row, rows, idx + 1)

RECURSIVE write_rows(_, _, _, _)
write_rows(acc, start_row, rows, idx) ==
    IF idx >= Len(rows) THEN acc
    ELSE write_rows(write_row_cells(acc, start_row + idx, rows[idx + 1], 1),
                    start_row, rows, idx + 1)

update_worksheet_data(w, d, updated_balances) ==
    IF HasRows(d)
    THEN LET f == find_data_start_row(w)
             start_row == f.row
             max_clear_rows == start_row + Len(d.rows) + ClearMargin
             cleared == clear_rows(MutResult(f.w, FALSE, {}, {}), start_row,
                                   Min2(max_clear_rows, max_row(f.w) + 1))
         IN write_rows(cleared, start_row, d.rows, 0)
    ELSE MutResult(w, FALSE, {}, {})

(***************************************************************************)
(* _add_processing_notes                                                   *)
(***************************************************************************)
NoteRows == 5
NoteFirstCol == 8
NoteColLimit == 13

RECURSIVE notes_scan(_, _, _, _)
notes_scan(w, row, col, ts) ==
    IF row > NoteRows THEN MutResult(w, FALSE, {}, {})
    ELSE IF col >= NoteColLimit THEN notes_scan(w, row + 1, NoteFirstCol, ts)
    ELSE LET w1 == cell(w, row, col)
         IN IF ~Truthy(Value(w1, row, col))
            THEN LET s == SetValue(w1, row, col, FmtV("Processed: ", ts))
                 IN \* a MergedCell raises out of both loops; the except
                    \* clause logs a warning
                    IF s.raised
                    THEN MutResult(s.w, FALSE, {<<row, col>>}, {<<row, col>>})
                    ELSE MutResult(s.w, FALSE, {}, {})
            ELSE notes_scan(w1, row, col + 1, ts)

\* the method without its try/except: the AttributeError leaves it
add_processing_notes_unguarded(w, ts) ==
    LET r == notes_scan(w, 1, NoteFirstCol, ts)
    IN [r EXCEPT !.raised = (r.targets # {})]

add_processing_notes(w, ts) == notes_scan(w, 1, NoteFirstCol, ts)

(***************************************************************************)
(* SpecMut: the mutators on one worksheet.                                 *)
(***************************************************************************)
MaxFullRows == 12     \* rows of the largest completely filled worksheet
MaxRuns == 2          \* update-and-write sequences run on one worksheet

Cells(f) == [p \in DOMAIN f |-> Cell(f[p])]
Merged(S) == [p \in S |-> MergedCell]

\* a new, empty worksheet
BlankSheet == Cells(<<>>)
\* title in A1, a date label, a column header row, no merged cells
TitledSheet ==
    Cells(<<1, 1>> :> StrV("Client Funds") @@ <<2, 2>> :> StrV("Date:")
          @@ <<4, 1>> :> StrV("Name") @@ <<4, 2>> :> StrV("Total"))
\* A1:A2 merged, the anchor A1 holding a number: A2 is a MergedCell
MergedHeaderSheet ==
    Cells(<<1, 1>> :> IntV(2025) @@ <<3, 1>> :> StrV("Name")) @@ Merged({<<2, 1>>})
\* H1:I1 merged with a text in the anchor: I1 is a MergedCell
MergedNotesSheet ==
    Cells(<<1, 1>> :> StrV("Client Funds") @@ <<1, 8>> :> StrV("Notes"))
    @@ Merged({<<1, 9>>})
\* C3:D4 merged with a text in the anchor: D3, C4 and D4 are MergedCells
MergedDataSheet ==
    Cells(<<1, 1>> :> StrV("Client Funds") @@ <<3, 3>> :> StrV("Week"))
    @@ Merged({<<3, 4>>, <<4, 3>>, <<4, 4>>})
\* values only right of the scanned columns
WideSheet ==
    Cells(<<1, 1>> :> StrV("Client Funds") @@ <<3, 7>> :> IntV(7) @@ <<4, 7>> :> IntV(8))
\* a value in F3, the sixth column, and nothing else in row 3
SixthColumnSheet ==
    Cells(<<1, 1>> :> StrV("Client Funds") @@ <<3, 6>> :> IntV(6) @@ <<4, 1>> :> StrV("Name"))
\* a text in A1 that holds no title or date keyword
PlainTitleSheet == Cells(<<1, 1>> :> StrV("Week 12"))
\* A7:B7 merged and empty: B7 is a MergedCell in the benefits data rows
MergedRowSevenSheet ==
    Cells(<<1, 1>> :> StrV("Client Funds")) @@ Merged({<<7, 2>>})
\* a value in M4, the thirteenth column, below an empty row 3
ThirteenthColumnSheet ==
    Cells(<<1, 1>> :> StrV("Client Funds") @@ <<4, ClearColLimit>> :> IntV(13))
\* the number 0 in H1, the first cell of the notes block
ZeroNoteSheet ==
    Cells(<<1, 1>> :> StrV("Client Funds") @@ <<1, NoteFirstCol>> :> IntV(0))
\* rows 1..n all hold a value in columns A..c
FullSheet(n, c) == Cells([p \in (1..n) \X (1..c) |-> IntV(p[1])])

Worksheets ==
    {BlankSheet, TitledSheet, MergedHeaderSheet, MergedNotesSheet, MergedDataSheet,
     WideSheet, SixthColumnSheet, ThirteenthColumnSheet, MergedRowSevenSheet,
     PlainTitleSheet, ZeroNoteSheet}
    \cup {FullSheet(n, c) : n \in 1..MaxFullRows, c \in {1, 6}}

BalanceCols == <<"Client", "Balance", "Date">>
TwoClients ==
    DataFrame(BalanceCols,
              << <<StrV("Client A"), FloatV(1000), StrV("01/01/2025")>>,
                 <<StrV("Client B"), IntV(2000), StrV("01/01/2025")>> >>)
OneWithNaN ==
    DataFrame(BalanceCols, << <<StrV("Client B"), NaNV, DateV(3)>> >>)
EmptyFrame == DataFrame(BalanceCols, <<>>)
\* one row of thirteen columns, one more than the clearing covers
WideFrame ==
    DataFrame([j \in 1..ClearColLimit |-> "Balance"],
              << [j \in 1..ClearColLimit |-> IntV(j)] >>)
DataFrames == {NoData, EmptyFrame, TwoClients, OneWithNaN, WideFrame}

MutTitle == "Balance Report"
MutTimestamp == 1

NoLog == [op |-> "none", raised |-> FALSE, targets |-> {}, reported |-> {}]
LogOf(op, r) == [op |-> op, raised |-> r.raised, targets |-> r.targets,
                 reported |-> r.reported]

GenIdle ==
    /\ count = <<>>
    /\ fs = <<>>
    /\ last = <<>>
    /\ hist = <<>>
    /\ ncalls = 0
    /\ nfaults = 0
    /\ gui = FALSE
    /\ ppc = "off"
    /\ trail = <<>>
    /\ generating = FALSE

MutInit ==
    /\ ws \in Worksheets
    /\ data \in DataFrames
    /\ mpc = "start"
    /\ run = 0
    /\ snap = BlankSheet
    /\ found = 0
    /\ mlog = NoLog
    /\ GenIdle

\* a direct call of _find_data_start_row on the loaded worksheet
CallFind ==
    /\ mpc = "start"
    /\ LET f == find_data_start_row(ws)
       IN /\ found' = f.row
          /\ ws' = f.w
    /\ mpc' = "found"
    /\ UNCHANGED <<data, run, snap, mlog>>
    /\ UNCHANGED gvars

\* _update_and_print_worksheet, line 154
MutHeader ==
    /\ mpc \in {"start", "saved"}
    /\ run < MaxRuns
    /\ LET r == update_worksheet_header(ws, MutTitle, MutTimestamp)
       IN /\ ws' = r.w
          /\ mlog' = LogOf("header", r)
    /\ mpc' = "data"
    /\ UNCHANGED <<data, run, snap, found>>
    /\ UNCHANGED gvars

\* _update_and_print_worksheet, lines 157-158
MutData ==
    /\ mpc = "data"
    /\ IF data.df /\ ~(Len(data.rows) = 0)
       THEN LET r == update_worksheet_data(ws, data, FALSE)
            IN /\ ws' = r.w
               /\ mlog' = LogOf("data", r)
               /\ found' = find_data_start_row(ws).row
       ELSE /\ ws' = ws
            /\ mlog' = NoLog
            /\ found' = found
    /\ mpc' = "notes"
    /\ UNCHANGED <<data, run, snap>>
    /\ UNCHANGED gvars

\* _update_and_print_worksheet, lines 161-166: the notes, then the save to
\* the original file, from which the next sequence loads the worksheet
MutNotes ==
    /\ mpc = "notes"
    /\ LET r == add_processing_notes(ws, MutTimestamp)
       IN /\ ws' = SaveLoad(r.w)
          /\ mlog' = LogOf("notes", r)
          /\ snap' = IF run = 0 THEN SaveLoad(r.w) ELSE snap
    /\ run' = run + 1
    /\ mpc' = "saved"
    /\ UNCHANGED <<data, found>>
    /\ UNCHANGED gvars


(***************************************************************************)
(* Files.  A workbook is its active sheet's name and its sheets; fs.books  *)
(* maps the name of each workbook file on disk to its contents, fs.pdfs    *)
(* the absolute path of each PDF on disk to what was drawn into it.        *)
(***************************************************************************)
client_funds_file == "Client Funds spreadsheet.xlsx"
bank_reconciliation_file == "LD Clients Cash  Bank Reconciliation.xls"
deposit_withdrawal_file == "Deposit & Withdrawal Sheet.xlsx"

Workbook(active, sheets) == [active |-> active, sheets |-> sheets]
sheetnames(b) == DOMAIN b.sheets

\* os.path.dirname and os.path.abspath on the paths of the model
dirname(p) ==
    CASE p = "out.pdf" -> ""
      [] p \in {"reports/out.pdf", "reports/a_b.pdf", "reports/a"} -> "reports"
      [] p = "/cwd/out.pdf" -> "/cwd"
      [] p \in {"/cwd/reports/out.pdf", "/cwd/reports/a_b.pdf", "/cwd/reports/a"}
            -> "/cwd/reports"
      [] p = "/home/user/chosen.pdf" -> "/home/user"
      [] p \in {"weekly/before.pdf", "weekly/benefits.pdf", "weekly/deposit.pdf", "weekly/after.pdf", "weekly/Reconciliation.pdf", "weekly/payment.pdf"} -> "weekly"
      [] p \in {"/cwd/weekly/before.pdf", "/cwd/weekly/benefits.pdf", "/cwd/weekly/deposit.pdf", "/cwd/weekly/after.pdf", "/cwd/weekly/Reconciliation.pdf", "/cwd/weekly/payment.pdf"} -> "/cwd/weekly"
      [] p \in {"monthly/before.pdf", "monthly/after.pdf", "monthly/Reconciliation.pdf"} -> "monthly"
      [] p \in {"/cwd/monthly/before.pdf", "/cwd/monthly/after.pdf", "/cwd/monthly/Reconciliation.pdf"} -> "/cwd/monthly"
      [] p \in {"reports/6Month_S.pdf", "reports/6Month_UK.pdf", "reports/Final.pdf"} -> "reports"
      [] p \in {"/cwd/reports/6Month_S.pdf", "/cwd/reports/6Month_UK.pdf", "/cwd/reports/Final.pdf"} -> "/cwd/reports"
      [] OTHER -> ""
abspath(p) ==
    CASE p = "out.pdf" -> "/cwd/out.pdf"
      [] p = "reports/out.pdf" -> "/cwd/reports/out.pdf"
      [] p = "reports/a_b.pdf" -> "/cwd/reports/a_b.pdf"
      [] p = "reports/a" -> "/cwd/reports/a"
      [] p = "weekly/before.pdf" -> "/cwd/weekly/before.pdf"
      [] p = "weekly/benefits.pdf" -> "/cwd/weekly/benefits.pdf"
      [] p = "weekly/deposit.pdf" -> "/cwd/weekly/deposit.pdf"
      [] p = "weekly/after.pdf" -> "/cwd/weekly/after.pdf"
      [] p = "weekly/Reconciliation.pdf" -> "/cwd/weekly/Reconciliation.pdf"
      [] p = "weekly/payment.pdf" -> "/cwd/weekly/payment.pdf"
      [] p = "monthly/before.pdf" -> "/cwd/monthly/before.pdf"
      [] p = "monthly/after.pdf" -> "/cwd/monthly/after.pdf"
      [] p = "monthly/Reconciliation.pdf" -> "/cwd/monthly/Reconciliation.pdf"
      [] p = "reports/6Month_S.pdf" -> "/cwd/reports/6Month_S.pdf"
      [] p = "reports/6Month_UK.pdf" -> "/cwd/reports/6Month_UK.pdf"
      [] p = "reports/Final.pdf" -> "/cwd/reports/Final.pdf"
      [] OTHER -> p

\* one call's environment: the user's answer to the save dialog, the
\* operations that fail during the call, and the clock's HHMMSS
FaultKinds == {"load", "save_orig", "save_temp", "load_print", "makedirs", "render",
               "remove", "convert"}
DialogAnswers == {"accept", "other", "cancel", "error"}

\* the result of a method: how it ended ("True", "False", or "raise" when an
\* exception left it), the files afterwards, and the number of times a render
\* strategy was entered
Ret(ret, f, strategy) == [ret |-> ret, fs |-> f, strategy |-> strategy]

PutBook(f, name, b) == [f EXCEPT !.books = (name :> b) @@ @]
RemoveFile(f, name) ==
    [f EXCEPT !.books = [n \in (DOMAIN @) \ {name} |-> @[n]]]
\* workbook.save(path): what load_workbook will read back
Saved(b) == [b EXCEPT !.sheets = [n \in DOMAIN @ |-> SaveLoad(@[n])]]

(***************************************************************************)
(* _show_save_pdf_dialog                                                   *)
(***************************************************************************)
NoPath == "<None>"
show_save_pdf_dialog(default_path, e) ==
    IF ~e.gui THEN default_path
    ELSE CASE e.dialog = "accept" -> abspath(default_path)
           [] e.dialog = "other" -> "/home/user/chosen.pdf"
           [] e.dialog = "cancel" -> NoPath
           [] OTHER -> default_path       \* the dialog raised: fallback to default

(***************************************************************************)
(* _excel_like_pdf_generation                                              *)
(***************************************************************************)
PageRowLimit == 40
PageColLimit == 10

\* sheet_name, or the active sheet's title when the workbook has no such sheet
SheetName(b, sheet_name) ==
    IF sheet_name \in sheetnames(b) THEN sheet_name ELSE b.active
\* worksheet = workbook[sheet_name], or workbook.active
SheetOf(b, sheet_name) == b.sheets[SheetName(b, sheet_name)]

\* the PDF written at output_pdf: the cells drawn and the strategy that drew them
WritePdf(f, output_pdf, sheet_name, drawn, by) ==
    [f EXCEPT !.pdfs = (abspath(output_pdf) :>
                            [sheet |-> sheet_name, drawn |-> drawn, by |-> by]) @@ @]

\* the grid of the page: the cells with a value among the rows and columns
\* the page shows
draw_grid(f, w, sheet_name, output_pdf) ==
    Ret("True",
        WritePdf(f, output_pdf, sheet_name,
                 {p \in (1..(Min2(max_row(w) + 1, PageRowLimit) - 1))
                          \X (1..(Min2(max_column(w) + 1, PageColLimit) - 1)) :
                     Value(w, p[1], p[2]) # NoneV},
                 "_excel_like_pdf_generation"),
        1)

excel_like_pdf_generation(f, excel_file, sheet_name, output_pdf, e) ==
    IF excel_file \notin DOMAIN f.books \/ "render" \in e.faults
    THEN Ret("False", f, 1)                         \* except: return False
    ELSE draw_grid(f, SheetOf(f.books[excel_file], sheet_name), sheet_name, output_pdf)

(***************************************************************************)
(* _enhanced_fallback_pdf_generation                                       *)
(***************************************************************************)
MinPdfBytes == 1024

\* the size in bytes of the PDF that doc.build wrote: the environment decides
\* whether it passes the verification
getsize(e) == IF "small" \in e.faults THEN MinPdfBytes ELSE MinPdfBytes + 1

\* the rows with at least one non-empty cell
DataRows(w) ==
    {r \in 1..max_row(w) : \E c \in 1..max_column(w) : Value(w, r, c) # NoneV}

\* the table of the rows with data, built and verified by its size
build_table(f, w, sheet_name, output_pdf, e) ==
    IF DataRows(w) = {} THEN Ret("False", f, 1)     \* No data found in worksheet
    ELSE Ret(IF getsize(e) > MinPdfBytes THEN "True" ELSE "False",
             WritePdf(f, output_pdf, sheet_name,
                      {p \in DataRows(w) \X (1..max_column(w)) :
                          Value(w, p[1], p[2]) # NoneV},
                      "_enhanced_fallback_pdf_generation"),
             1)

enhanced_fallback_pdf_generation(f, excel_file, sheet_name, output_pdf, e) ==
    IF excel_file \notin DOMAIN f.books \/ "render" \in e.faults
    THEN Ret("False", f, 1)                         \* except: return False
    ELSE build_table(f, SheetOf(f.books[excel_file], sheet_name), sheet_name,
                     output_pdf, e)

(***************************************************************************)
(* _print_worksheet_to_pdf                                                 *)
(***************************************************************************)
\* the result r as a boolean: a result that is not True, an exception caught
\* by a try/except among them, is False
Caught(r) == IF r.ret = "True" THEN r ELSE Ret("False", r.fs, r.strategy)

\* the method without its try/except: a failure of load_workbook or of
\* os.makedirs leaves it as an exception
print_worksheet_to_pdf_unguarded(f, excel_file, sheet_name, output_pdf, e) ==
    IF excel_file \notin DOMAIN f.books \/ "load_print" \in e.faults
    THEN Ret("raise", f, 0)
    ELSE IF show_save_pdf_dialog(output_pdf, e) = NoPath THEN Ret("False", f, 0)
    ELSE IF dirname(show_save_pdf_dialog(output_pdf, e)) = "" \/ "makedirs" \in e.faults
    THEN Ret("raise", f, 0)
    ELSE excel_like_pdf_generation(f, excel_file,
                                   SheetName(f.books[excel_file], sheet_name),
                                   show_save_pdf_dialog(output_pdf, e), e)

\* from the answer of the dialog on
print_to_path(f, excel_file, name, final_pdf_path, e) ==
    IF final_pdf_path = NoPath THEN Ret("False", f, 0)   \* cancelled by the user
    ELSE IF dirname(final_pdf_path) = "" \/ "makedirs" \in e.faults
    THEN Ret("False", f, 0)                              \* os.makedirs raised
    ELSE Caught(excel_like_pdf_generation(f, excel_file, name, final_pdf_path, e))

print_worksheet_to_pdf(f, excel_file, sheet_name, output_pdf, e) ==
    IF excel_file \notin DOMAIN f.books \/ "load_print" \in e.faults
    THEN Ret("False", f, 0)                              \* load_workbook raised
    ELSE print_to_path(f, excel_file, SheetName(f.books[excel_file], sheet_name),
                       show_save_pdf_dialog(output_pdf, e), e)

\* os.remove(temp_file), its failure logged
RemoveTemp(f, temp_file, e) ==
    IF "remove" \in e.faults THEN f ELSE RemoveFile(f, temp_file)
\* a clean-up made only after a successful print
Cleanup_on_success(p, temp_file, e) ==
    IF p.ret = "True" THEN Ret(p.ret, RemoveTemp(p.fs, temp_file, e), p.strategy)
    ELSE Ret("False", p.fs, p.strategy)

\* after the print p: the temp file removed; an exception from the print
\* skips that and is caught by the caller's except clause
Cleanup(p, temp_file, e) ==
    IF p.ret = "raise" THEN Ret("False", p.fs, p.strategy)
    ELSE Ret(p.ret, RemoveTemp(p.fs, temp_file, e), p.strategy)

\* workbook.save(temp_file), the print of its sheet, the clean-up; b is the
\* workbook as saved
print_temp(f, b, temp_file, sheet_name, output_pdf, e) ==
    IF "save_temp" \in e.faults THEN Ret("False", f, 0)
    ELSE Cleanup(print_worksheet_to_pdf(PutBook(f, temp_file, b), temp_file,
                                        sheet_name, output_pdf, e),
                 temp_file, e)

(***************************************************************************)
(* _update_and_print_worksheet                                             *)
(***************************************************************************)
\* f"{base_name}_temp_{datetime.now().strftime('%H%M%S')}.xlsx"
TempName(excel_file, now) ==
    CASE excel_file = client_funds_file /\ now = 0 -> "Client Funds spreadsheet_temp_120000.xlsx"
      [] excel_file = client_funds_file /\ now = 1 -> "Client Funds spreadsheet_temp_120001.xlsx"
      [] excel_file = client_funds_file /\ now = 2 -> "Client Funds spreadsheet_temp_120002.xlsx"
      [] excel_file = client_funds_file /\ now = 3 -> "Client Funds spreadsheet_temp_120003.xlsx"
      [] excel_file = client_funds_file /\ now = 4 -> "Client Funds spreadsheet_temp_120004.xlsx"
      [] excel_file = client_funds_file /\ now = 5 -> "Client Funds spreadsheet_temp_120005.xlsx"
      [] excel_file = client_funds_file /\ now = 6 -> "Client Funds spreadsheet_temp_120006.xlsx"
      [] excel_file = client_funds_file /\ now = 7 -> "Client Funds spreadsheet_temp_120007.xlsx"
      [] excel_file = client_funds_file /\ now = 8 -> "Client Funds spreadsheet_temp_120008.xlsx"
      [] excel_file = client_funds_file -> "Client Funds spreadsheet_temp_120009.xlsx"
      [] OTHER -> "other_temp_120000.xlsx"

\* the header, the dataset (unless it is None or empty), the notes
UpdatedSheet(w, d, title, ts) ==
    add_processing_notes(
        IF d.df /\ Len(d.rows) # 0
        THEN update_worksheet_data(update_worksheet_header(w, title, ts).w, d, FALSE).w
        ELSE update_worksheet_header(w, title, ts).w,
        ts).w

\* a failed save to the original file ends the call
save_and_print_or_fail(f, excel_file, sheet_name, b1, output_pdf, e) ==
    IF "save_orig" \in e.faults THEN Ret("False", f, 0)
    ELSE print_temp(PutBook(f, excel_file, b1),
                    b1, TempName(excel_file, e.now), sheet_name, output_pdf, e)

\* from the saves on; b1 is the updated workbook.  A failure of
\* workbook.save(excel_file) is logged and the temp file is still printed
save_and_print(f, excel_file, sheet_name, b1, output_pdf, e) ==
    print_temp(IF "save_orig" \in e.faults THEN f ELSE PutBook(f, excel_file, b1),
               b1, TempName(excel_file, e.now), sheet_name, output_pdf, e)

\* the method without the test of workbook.sheetnames: an absent sheet is
\* not updated, the workbook is saved, copied and printed
update_and_print_any_sheet(f, excel_file, sheet_name, d, output_pdf, title, ts, e) ==
    IF excel_file \notin DOMAIN f.books \/ "load" \in e.faults
    THEN Ret("False", f, 0)
    ELSE save_and_print(f, excel_file, sheet_name, Saved(f.books[excel_file]), output_pdf, e)

update_and_print_worksheet(f, excel_file, sheet_name, d, output_pdf, title, ts, e) ==
    IF excel_file \notin DOMAIN f.books \/ "load" \in e.faults
    THEN Ret("False", f, 0)                              \* load_workbook raised
    ELSE IF sheet_name \notin sheetnames(f.books[excel_file]) THEN Ret("False", f, 0)
    ELSE save_and_print(f, excel_file, sheet_name,
                        Saved([f.books[excel_file] EXCEPT !.sheets[sheet_name] =
                                   UpdatedSheet(@, d, title, ts)]),
                        output_pdf, e)

(***************************************************************************)
(* _create_new_benefits_workbook                                           *)
(***************************************************************************)
\* a block of values written with worksheet.cell(row, column, value=...) or
\* cell.value = ..., each write guarded by try/except: a MergedCell keeps
\* its (empty) value
WriteBlock(w, block) ==
    [p \in DOMAIN w \cup DOMAIN block |->
        IF p \in DOMAIN block /\ ~(p \in DOMAIN w /\ w[p].m)
        THEN Cell(block[p]) ELSE w[p]]

\* the rows of the frame from start_row on, without the header names
FrameBlock_no_header(d, start_row) ==
    [p \in ((start_row..(start_row + Len(d.rows) - 1)) \X (1..Len(d.cols))) |->
        d.rows[p[1] - start_row + 1][p[2]]]

\* the header names in row start_row and the rows of the frame below it
FrameBlock(d, start_row) ==
    [p \in ((start_row..(start_row + Len(d.rows))) \X (1..Len(d.cols))) |->
        IF p[1] = start_row THEN StrV(d.cols[p[2]])
        ELSE d.rows[p[1] - start_row][p[2]]]

FallbackStartRow == 5

create_new_benefits_workbook(f, d, filename, title, ts, e) ==
    print_temp(f,
               Saved(Workbook("Benefits Processing",
                   ("Benefits Processing" :>
                       WriteBlock(Cells(<<1, 1>> :> StrV(title)
                                        @@ <<2, 1>> :> FmtV("Generated: ", ts)
                                        @@ <<3, 1>> :> StrV("Note: Created as fallback")),
                                  IF HasRows(d) THEN FrameBlock(d, FallbackStartRow)
                                  ELSE <<>>)))),
               "Benefits_Processing_Fallback_temp.xlsx", "Benefits Processing",
               filename, e)

(***************************************************************************)
(* _create_benefits_worksheet_pdf                                          *)
(***************************************************************************)
BenefitsFirstRow == 6
BenefitsRowLimit == 15
BenefitsClearMargin == 5

\* the title when A1 is a MergedCell: the first cell of rows 1..3, columns
\* A..D that has a value and can be written
RECURSIVE benefits_title_fallback(_, _, _, _)
benefits_title_fallback(w, row, col, title) ==
    IF row >= 4 THEN w
    ELSE IF col >= 5 THEN benefits_title_fallback(w, row + 1, 1, title)
    ELSE LET w1 == cell(w, row, col)
         IN IF Value(w1, row, col) = NoneV
            THEN benefits_title_fallback(w1, row, col + 1, title)
            ELSE SetValue(w1, row, col, StrV(title)).w

\* the timestamp when A2 is a MergedCell: the first cell of rows 2..4,
\* columns A..D that can be written
RECURSIVE benefits_stamp_fallback(_, _, _, _)
benefits_stamp_fallback(w, row, col, ts) ==
    IF row >= 5 THEN w
    ELSE IF col >= 5 THEN benefits_stamp_fallback(w, row + 1, 1, ts)
    ELSE LET s == SetValue(cell(w, row, col), row, col, FmtV("Generated: ", ts))
         IN IF s.raised THEN benefits_stamp_fallback(s.w, row, col + 1, ts)
            ELSE s.w

\* the first empty row from row 6 on, however far down
RECURSIVE benefits_start_row_unbounded(_, _, _)
benefits_start_row_unbounded(w, row_num, ncols) ==
    IF \A c \in 1..(ncols + 1) : Value(w, row_num, c) = NoneV THEN row_num
    ELSE benefits_start_row_unbounded(w, row_num + 1, ncols)

\* for row_num in range(6, 15): the first row whose columns 1..len(columns)+1
\* are all None, else row 6
RECURSIVE benefits_start_row(_, _, _)
benefits_start_row(w, row_num, ncols) ==
    IF row_num >= BenefitsRowLimit THEN BenefitsFirstRow
    ELSE IF \A c \in 1..(ncols + 1) : Value(w, row_num, c) = NoneV THEN row_num
    ELSE benefits_start_row(w, row_num + 1, ncols)

\* worksheet['A1'] = title
benefits_title(w, title) ==
    IF IsMerged(w, 1, 1) THEN benefits_title_fallback(w, 1, 1, title)
    ELSE SetValue(cell(w, 1, 1), 1, 1, StrV(title)).w

\* worksheet['A2'] = f"Generated: {timestamp}"
benefits_stamp(w, ts) ==
    IF IsMerged(w, 2, 1) THEN benefits_stamp_fallback(w, 2, 1, ts)
    ELSE SetValue(cell(w, 2, 1), 2, 1, FmtV("Generated: ", ts)).w

\* the area cleared, then the column names and the rows written from start_row
benefits_write(w, d) ==
    IF HasRows(d)
    THEN LET start_row == benefits_start_row(w, BenefitsFirstRow, Len(d.cols))
         IN WriteBlock(WriteBlock(w, [p \in (start_row..(start_row + Len(d.rows)
                                                          + BenefitsClearMargin - 1))
                                             \X (1..(Len(d.cols) + 1)) |-> NoneV]),
                       FrameBlock(d, start_row))
    ELSE w

benefits_update(w, d, title, ts) ==
    benefits_write(benefits_stamp(benefits_title(w, title), ts), d)

\* the original saved whatever the print returned
benefits_saved_always(p, b1, e) ==
    IF "save_orig" \notin e.faults THEN PutBook(p.fs, deposit_withdrawal_file, b1) ELSE p.fs

\* workbook.save(benefits_file) after a successful print, its failure logged
benefits_saved(p, b1, e) ==
    IF p.ret = "True" /\ "save_orig" \notin e.faults
    THEN PutBook(p.fs, deposit_withdrawal_file, b1)
    ELSE p.fs

\* after the print p of the updated workbook b1: the original saved and the
\* temp file removed, or a new workbook when the print raised
benefits_finish(p, b1, d, filename, title, ts, e) ==
    IF p.ret = "raise"
    THEN create_new_benefits_workbook(p.fs, d, filename, title, ts, e)
    ELSE Ret(p.ret,
             RemoveTemp(benefits_saved(p, b1, e), "Benefits_Processing_Updated_temp.xlsx", e),
             p.strategy)

\* the updated workbook b1 saved as the temp file and printed
benefits_print(f, sheet_name, b1, d, filename, title, ts, e) ==
    benefits_finish(print_worksheet_to_pdf(
                        PutBook(f, "Benefits_Processing_Updated_temp.xlsx", b1),
                        "Benefits_Processing_Updated_temp.xlsx", sheet_name, filename, e),
                    b1, d, filename, title, ts, e)

create_benefits_worksheet_pdf(f, d, filename, title, ts, e) ==
    IF deposit_withdrawal_file \notin DOMAIN f.books
    THEN create_new_benefits_workbook(f, d, filename, title, ts, e)
    ELSE IF "load" \in e.faults \/ "save_temp" \in e.faults
    THEN \* load_workbook or the save of the temp file raised: the except
         \* clause falls back to a new workbook
         create_new_benefits_workbook(f, d, filename, title, ts, e)
    ELSE benefits_print(
             f, SheetName(f.books[deposit_withdrawal_file], "BENEFITS"),
             Saved([f.books[deposit_withdrawal_file] EXCEPT
                        !.sheets[SheetName(f.books[deposit_withdrawal_file], "BENEFITS")] =
                            benefits_update(@, d, title, ts)]),
             d, filename, title, ts, e)

(***************************************************************************)
(* _create_new_reconciliation_workbook                                     *)
(* reconciliation_data is a dict: a sequence of <<key, value>> items.      *)
(***************************************************************************)
ReconStartRow == 5

ItemsBlock(items, first_row) ==
    [p \in ((first_row..(first_row + Len(items) - 1)) \X (1..2)) |->
        StrV(items[p[1] - first_row + 1][p[2]])]

create_new_reconciliation_workbook(f, items, output_pdf, ts, e) ==
    print_temp(f,
               Saved(Workbook("Bank Reconciliation",
                   ("Bank Reconciliation" :>
                       WriteBlock(Cells(<<1, 1>> :> StrV("LD Clients Cash Bank Reconciliation")
                                        @@ <<2, 1>> :> FmtV("Generated: ", ts)
                                        @@ <<3, 1>> :> StrV("Note: Created as fallback")),
                                  ItemsBlock(items, ReconStartRow))))),
               "Bank_Reconciliation_Week_temp.xlsx", "Bank Reconciliation",
               output_pdf, e)

(***************************************************************************)
(* _update_and_print_reconciliation_worksheet                              *)
(***************************************************************************)
ReconDateRows == 10
ReconGap == 2

\* for cell in row: the first text holding 'date' or 'generated' is replaced
RECURSIVE recon_date_row(_, _, _, _, _)
recon_date_row(w, row, col, last_col, ts) ==
    IF col > last_col THEN w
    ELSE LET w1 == cell(w, row, col)
             v == Value(w1, row, col)
         IN IF Truthy(v) /\ v.k = "str" /\ KeywordsIn(v.s) \cap {"date", "generated"} # {}
            THEN SetValue(w1, row, col, FmtV("Generated: ", ts)).w      \* break
            ELSE recon_date_row(w1, row, col + 1, last_col, ts)

\* for row in worksheet.iter_rows(min_row=1, max_row=10)
RECURSIVE recon_date_rows(_, _, _, _)
recon_date_rows(w, row, last_col, ts) ==
    IF row > ReconDateRows THEN w
    ELSE recon_date_rows(recon_date_row(w, row, 1, last_col, ts), row + 1, last_col, ts)

\* the dates stamped, then the update section appended below the sheet
reconciliation_update(w, items, ts) ==
    LET w1 == recon_date_rows(w, 1, max_column(w), ts)
        last_row == max_row(w1) + ReconGap
    IN WriteBlock(WriteBlock(w1, (<<last_row, 1>> :>
                                      FmtV("=== Reconciliation Update", ts))),
                  ItemsBlock(items, last_row + 1))

\* after the print p of the updated copy: the temp file removed, and a new
\* workbook when the print raised
recon_finish(p, items, output_pdf, ts, e) ==
    IF p.ret = "raise"
    THEN create_new_reconciliation_workbook(RemoveTemp(p.fs, "Bank_Reconciliation_temp.xlsx", e), items,
                                            output_pdf, ts, e)
    ELSE Ret(p.ret, RemoveTemp(p.fs, "Bank_Reconciliation_temp.xlsx", e), p.strategy)

update_and_print_reconciliation_worksheet(f, items, output_pdf, ts, e) ==
    IF bank_reconciliation_file \notin DOMAIN f.books
    THEN create_new_reconciliation_workbook(f, items, output_pdf, ts, e)
    ELSE IF "convert" \in e.faults
    THEN \* the LibreOffice conversion failed or timed out
         create_new_reconciliation_workbook(f, items, output_pdf, ts, e)
    ELSE IF "load" \in e.faults \/ "save_temp" \in e.faults
    THEN \* except update_error: remove the converted copy, fall back
         create_new_reconciliation_workbook(
             RemoveTemp(PutBook(f, "Bank_Reconciliation_temp.xlsx", f.books[bank_reconciliation_file]),
                        "Bank_Reconciliation_temp.xlsx", e),
             items, output_pdf, ts, e)
    ELSE recon_finish(
             print_worksheet_to_pdf(
                 PutBook(f, "Bank_Reconciliation_temp.xlsx",
                         Saved([f.books[bank_reconciliation_file] EXCEPT
                                    !.sheets[f.books[bank_reconciliation_file].active] =
                                        reconciliation_update(@, items, ts)])),
                 "Bank_Reconciliation_temp.xlsx", f.books[bank_reconciliation_file].active, output_pdf, e),
             items, output_pdf, ts, e)

(***************************************************************************)
(* SpecMut, continued: the benefits sheet's update on one worksheet.       *)
(***************************************************************************)
\* _create_benefits_worksheet_pdf, lines 363-456, on the loaded worksheet
MutBenefits ==
    /\ mpc = "start"
    /\ ws' = benefits_update(ws, data, MutTitle, MutTimestamp)
    /\ found' = IF HasRows(data)
                THEN benefits_start_row(
                         benefits_stamp(benefits_title(ws, MutTitle), MutTimestamp),
                         BenefitsFirstRow, Len(data.cols))
                ELSE found
    /\ mlog' = [NoLog EXCEPT !.op = "benefits"]
    /\ mpc' = "benefits"
    /\ UNCHANGED <<data, run, snap>>
    /\ UNCHANGED gvars

MutNext == CallFind \/ MutHeader \/ MutData \/ MutNotes \/ MutBenefits

SpecMut == MutInit /\ [][MutNext]_vars

(***************************************************************************)
(* create_reconciliation_pdf and create_balance_report_pdf                 *)
(***************************************************************************)
create_reconciliation_pdf(f, items, filename, ts, e) ==
    Caught(update_and_print_reconciliation_worksheet(f, items, filename, ts, e))

\* the pieces of a text that f-string concatenation joins
Tokens(t) ==
    CASE t = "reports/a_b.pdf" -> <<"reports/a", "_", "b.pdf">>
      [] t = "b.pdf_Report" -> <<"b.pdf", "_", "Report">>
      [] OTHER -> <<t>>
\* pdf_key = f"{filename}_{title}"
pdf_key(filename, title) == Tokens(filename) \o <<"_">> \o Tokens(title)

ThrottleLimit == 5

\* the phrases of the dispatch that the lower-cased title contains
PhrasesIn(title) ==
    CASE title = "Balance before benefits" -> {"before benefits", "benefits"}
      [] title = "Balance after benefits" ->
            {"after benefits", "benefits", "balance after benefits"}
      [] title = "Weekly Benefits" -> {"benefits"}
      [] OTHER -> {}

\* the part of create_balance_report_pdf after the throttle
balance_report_dispatch(f, d, filename, title, ts, e) ==
    IF "before benefits" \in PhrasesIn(title)
    THEN update_and_print_worksheet(f, client_funds_file, "SUMMARY", d, filename,
                                    title, ts, e)
    ELSE IF "after benefits" \in PhrasesIn(title)
    THEN update_and_print_worksheet(f, client_funds_file, "SUMMARY", d, filename,
                                    title, ts, e)
    ELSE IF "benefits" \in PhrasesIn(title)
    THEN create_benefits_worksheet_pdf(f, d, filename, title, ts, e)
    ELSE update_and_print_worksheet(f, client_funds_file, "SUMMARY", d, filename,
                                    title, ts, e)

\* the new value of _pdf_generation_count[pdf_key]
next_count(c, key) == IF key \in DOMAIN c THEN c[key] + 1 ELSE 1
\* a throttle whose comparison is one off: six calls pass
throttled_after_six(c, key) == key \in DOMAIN c /\ c[key] + 1 > ThrottleLimit + 1
\* the throttle: TRUE when the call returns at once
throttled(c, key) == key \in DOMAIN c /\ c[key] + 1 > ThrottleLimit

\* the method with the throttle applied to the return value only: the
\* worksheet is updated and printed on every call
create_balance_report_pdf_unthrottled(c, f, d, filename, title, ts, e) ==
    [count |-> (pdf_key(filename, title) :> next_count(c, pdf_key(filename, title))) @@ c,
     warned |-> throttled(c, pdf_key(filename, title)),
     passed |-> ~throttled(c, pdf_key(filename, title)),
     r |-> IF throttled(c, pdf_key(filename, title))
           THEN Ret("True", balance_report_dispatch(f, d, filename, title, ts, e).fs, 0)
           ELSE Caught(balance_report_dispatch(f, d, filename, title, ts, e))]

\* what a call did: the counters after it, whether it logged the throttle
\* warning, whether it passed the throttle, and its result
create_balance_report_pdf(c, f, d, filename, title, ts, e) ==
    [count |-> (pdf_key(filename, title) :> next_count(c, pdf_key(filename, title))) @@ c,
     warned |-> throttled(c, pdf_key(filename, title)),
     passed |-> ~throttled(c, pdf_key(filename, title)),
     r |-> IF throttled(c, pdf_key(filename, title))
           THEN Ret("True", f, 0)                  \* return True
           ELSE Caught(balance_report_dispatch(f, d, filename, title, ts, e))]

(***************************************************************************)
(* Spec: one generator and its callers.                                    *)
(***************************************************************************)
MaxCalls == 7          \* calls one caller makes in a behaviour of Spec
MaxDirectCalls == 1    \* calls made in a behaviour of SpecRender

Filenames == {"out.pdf", "reports/out.pdf"}
Titles == {"Balance Report", "Weekly Benefits"}
\* the (filename, title) pairs the caller of Spec asks for
Requests ==
    {<<"out.pdf", "Balance Report">>, <<"reports/out.pdf", "Balance Report">>,
     <<"reports/out.pdf", "Weekly Benefits">>}
OneClient ==
    DataFrame(BalanceCols, << <<StrV("Client A"), FloatV(1000), StrV("01/01/2025")>> >>)
CallFrames == {OneClient}
ReconItems == << <<"Bank Balance:", "100">> >>
Timestamp == 1

\* the Deposit & Withdrawal sheet: A1:A2 merged, a heading row
BenefitsSheet ==
    Cells(<<1, 1>> :> StrV("Deposits") @@ <<4, 1>> :> StrV("Name")) @@ Merged({<<2, 1>>})
ReconSheet == Cells(<<1, 1>> :> StrV("Reconciliation") @@ <<2, 1>> :> StrV("Date:"))

NoPdfs == [p \in {} |-> [sheet |-> "", drawn |-> {}, by |-> ""]]
\* every workbook present
FullDisk ==
    [books |-> (client_funds_file :> Workbook("SUMMARY", ("SUMMARY" :> TitledSheet)))
               @@ (deposit_withdrawal_file :> Workbook("BENEFITS", ("BENEFITS" :> BenefitsSheet)))
               @@ (bank_reconciliation_file :> Workbook("Sheet1", ("Sheet1" :> ReconSheet))),
     pdfs |-> NoPdfs]
\* the SUMMARY sheet has no cells; the other workbooks are absent
EmptySummaryDisk ==
    [books |-> (client_funds_file :> Workbook("SUMMARY", ("SUMMARY" :> BlankSheet))),
     pdfs |-> NoPdfs]
\* the Client Funds workbook has no SUMMARY sheet
NoSummaryDisk ==
    [books |-> (client_funds_file :> Workbook("Sheet1", ("Sheet1" :> TitledSheet)))
               @@ (deposit_withdrawal_file :> Workbook("Sheet1", ("Sheet1" :> BlankSheet))),
     pdfs |-> NoPdfs]
\* the SUMMARY sheet holds a value in J1, the tenth column
TenColumnSheet ==
    Cells(<<1, 1>> :> StrV("Client Funds") @@ <<1, PageColLimit>> :> StrV("Notes"))
TenColumnDisk ==
    [books |-> (client_funds_file :> Workbook("SUMMARY", ("SUMMARY" :> TenColumnSheet))),
     pdfs |-> NoPdfs]
\* the BENEFITS sheet holds names in rows 6..10 and a total in row 16
FilledBenefitsSheet ==
    Cells([p \in (BenefitsFirstRow..10) \X {1} |-> StrV("Name")]
          @@ <<1, 1>> :> StrV("Deposits") @@ <<16, 1>> :> StrV("Total"))
FilledBenefitsDisk ==
    [books |-> (client_funds_file :> Workbook("SUMMARY", ("SUMMARY" :> TitledSheet)))
               @@ (deposit_withdrawal_file :>
                       Workbook("BENEFITS", ("BENEFITS" :> FilledBenefitsSheet))),
     pdfs |-> NoPdfs]
Disks == {FullDisk, EmptySummaryDisk, NoSummaryDisk, TenColumnDisk, FilledBenefitsDisk}

NoCall ==
    [op |-> "none", key |-> <<>>, filename |-> "", warned |-> FALSE, passed |-> FALSE,
     ret |-> "", strategy |-> 0, tried |-> <<>>, faults |-> {}, dialog |-> "",
     office |-> FALSE, cells |-> 0]

MutIdle ==
    /\ ws = BlankSheet
    /\ data = NoData
    /\ mpc = "off"
    /\ run = 0
    /\ snap = BlankSheet
    /\ found = 0
    /\ mlog = NoLog

Init ==
    /\ MutIdle
    /\ count = <<>>
    /\ fs \in Disks
    /\ last = NoCall
    /\ hist = <<>>
    /\ ncalls = 0
    /\ nfaults = 0
    /\ gui \in BOOLEAN
    /\ ppc = "off"
    /\ trail = <<>>
    /\ generating = FALSE

\* the environments one call can meet
Plain(e) == e.faults = {} /\ e.dialog = "accept"
\* nothing fails and a dialog, when shown, is accepted
PlainEnvs == {[gui |-> gui, dialog |-> "accept", faults |-> {}, now |-> ncalls]}
\* the render strategies a call entered, in order: _print_worksheet_to_pdf
\* calls _excel_like_pdf_generation and no other strategy
Tried(op, r) ==
    [i \in 1..r.strategy |-> IF op = "fallback" THEN "_enhanced_fallback_pdf_generation"
                             ELSE "_excel_like_pdf_generation"]

\* the environments of a direct call of _enhanced_fallback_pdf_generation
FallbackEnvs ==
    {[gui |-> gui, dialog |-> "accept", faults |-> F, now |-> ncalls] :
        F \in {{}, {"render"}, {"small"}}}
\* one fault strikes, or the user answers the dialog in any way
AnyEnvs ==
    {e \in [gui : {gui}, dialog : IF gui THEN DialogAnswers ELSE {"accept"},
            faults : {{}} \cup {{k} : k \in FaultKinds}, now : {ncalls}] :
        e.faults = {} \/ e.dialog = "accept"}

HistOf(key) == IF key \in DOMAIN hist THEN hist[key] ELSE [passed |-> 0, strategy |-> 0]
Bump(e) ==
    /\ ncalls' = ncalls + 1
    /\ nfaults' = nfaults + (IF Plain(e) THEN 0 ELSE 1)
    /\ UNCHANGED gui
    /\ UNCHANGED mvars
    /\ UNCHANGED pvars

\* the record of a call: c is what create_balance_report_pdf did
BalanceReturned(c, key, filename, e) ==
    /\ count' = c.count
    /\ fs' = c.r.fs
    /\ hist' = (key :> [passed |-> HistOf(key).passed + (IF c.passed THEN 1 ELSE 0),
                        strategy |-> HistOf(key).strategy + c.r.strategy]) @@ hist
    /\ last' = [op |-> "balance", key |-> key, filename |-> filename,
                warned |-> c.warned, passed |-> c.passed, ret |-> c.r.ret,
                strategy |-> c.r.strategy, tried |-> Tried("balance", c.r),
                faults |-> e.faults, dialog |-> e.dialog, office |-> FALSE,
                cells |-> 0]
    /\ Bump(e)

BalanceReport(filename, title, d, e) ==
    BalanceReturned(create_balance_report_pdf(count, fs, d, filename, title, Timestamp, e),
                    pdf_key(filename, title), filename, e)

\* a caller calls create_balance_report_pdf, again and again
CallBalanceReport ==
    /\ ncalls < MaxCalls
    /\ \E q \in Requests, d \in CallFrames, e \in PlainEnvs :
        BalanceReport(q[1], q[2], d, e)

\* one call of create_balance_report_pdf in any environment
CallBalanceReportOnce ==
    /\ ncalls < MaxDirectCalls
    /\ \E filename \in Filenames, title \in Titles, d \in CallFrames, e \in AnyEnvs :
        BalanceReport(filename, title, d, e)

\* the record of a call of op that returned r
Returned(op, r, filename, office, cells, e) ==
    /\ fs' = r.fs
    /\ last' = [op |-> op, key |-> <<>>, filename |-> filename,
                warned |-> FALSE, passed |-> FALSE, ret |-> r.ret,
                strategy |-> r.strategy, tried |-> Tried(op, r),
                faults |-> e.faults, dialog |-> e.dialog, office |-> office,
                cells |-> cells]
    /\ UNCHANGED <<count, hist>>
    /\ Bump(e)

\* a caller calls create_reconciliation_pdf
CallReconciliation ==
    /\ ncalls < MaxDirectCalls
    /\ \E filename \in Filenames, e \in AnyEnvs :
        Returned("reconciliation",
                     create_reconciliation_pdf(fs, ReconItems, filename, Timestamp, e),
                     filename, FALSE, 0, e)

\* the number of cells with a value in the worksheet a render of sheet_name
\* in excel_file draws
NonEmptyCells(excel_file, sheet_name) ==
    IF excel_file \in DOMAIN fs.books
    THEN Cardinality(DOMAIN Contents(SheetOf(fs.books[excel_file], sheet_name))) ELSE 0

\* a procedure step or a demonstration calls _print_worksheet_to_pdf on a
\* workbook; office tells whether an office suite is installed
CallPrint ==
    /\ ncalls < MaxDirectCalls
    /\ \E sheet_name \in {"SUMMARY", "Sheet1"}, filename \in Filenames, e \in AnyEnvs,
          office \in BOOLEAN :
        Returned("print",
                     print_worksheet_to_pdf(fs, client_funds_file, sheet_name, filename, e),
                     filename, office, NonEmptyCells(client_funds_file, sheet_name), e)

\* a demonstration calls _enhanced_fallback_pdf_generation on a workbook
CallFallback ==
    /\ ncalls < MaxDirectCalls
    /\ \E sheet_name \in {"SUMMARY", "Sheet1"}, filename \in Filenames,
          e \in FallbackEnvs :
        Returned("fallback",
                 enhanced_fallback_pdf_generation(fs, client_funds_file, sheet_name,
                                                  filename, e),
                 filename, FALSE, NonEmptyCells(client_funds_file, sheet_name), e)

Next == CallBalanceReport

Spec == Init /\ [][Next]_vars

RenderNext == CallBalanceReportOnce \/ CallReconciliation \/ CallPrint \/ CallFallback

SpecRender == Init /\ [][RenderNext]_vars
(***************************************************************************)
(* SpecBurst: a caller's calls in quick succession, all within one second  *)
(* of the clock.                                                           *)
(***************************************************************************)
MaxBurstCalls == 3     \* calls made in a behaviour of SpecBurst

\* the (filename, title) pairs of the burst; the first two are distinct
\* pairs
BurstRequests ==
    {<<"reports/a_b.pdf", "Report">>, <<"reports/a", "b.pdf_Report">>,
     <<"reports/out.pdf", "Weekly Benefits">>}

\* nothing fails but, in some calls, os.remove (a file held open elsewhere)
BurstEnvs ==
    {[gui |-> gui, dialog |-> "accept", faults |-> F, now |-> 0] :
        F \in {{}, {"remove"}}}

CallInBurst ==
    /\ ncalls < MaxBurstCalls
    /\ \E q \in BurstRequests, d \in CallFrames, e \in BurstEnvs :
        BalanceReport(q[1], q[2], d, e)

BurstNext == CallInBurst

SpecBurst == Init /\ [][BurstNext]_vars

(***************************************************************************)
(* LDCC1Processor: the weekly procedure.  start_processing runs the        *)
(* benefits steps, the reconciliation, the payments, the six-month update  *)
(* and the reports, one after the other, in the thread that called it.     *)
(* The CSV, text and JSON files the steps write next to their PDFs are     *)
(* not part of fs.                                                         *)
(***************************************************************************)
weekly_benefits_file == "Weekly SS Benefits/Weeks 1-13.xlsx"
week_tab_name == "Week 1"

\* self.data, the benefits read from the CSV file
BenefitsData ==
    DataFrame(<<"Surname", "Forename", "House name", "Amount", "Due/run date">>,
              << <<StrV("SMITH"), StrV("JOHN"), StrV("GREENACRES"), FloatV(85),
                   StrV("25/09/2025")>> >>)

\* for row in range(1, 6): for col in range(1, 13): the first text of each
\* row that holds the phrase is replaced by the new title
retitle(w, phrase, v) ==
    [p \in DOMAIN w |->
        IF /\ p[1] <= 5 /\ p[2] <= 12
           /\ Truthy(w[p].v) /\ phrase \in KeywordsIn(w[p].v.s) \cup PhrasesIn(w[p].v.s)
           /\ \A c \in 1..(p[2] - 1) :
                  ~(Truthy(Value(w, p[1], c))
                    /\ phrase \in KeywordsIn(Value(w, p[1], c).s) \cup PhrasesIn(Value(w, p[1], c).s))
        THEN Cell(v) ELSE w[p]]

\* the first cell of row 3, columns 1..6, whose text holds the mark gets the
\* new period
redate(w, marks, v) ==
    [p \in DOMAIN w |->
        IF /\ p[1] = 3 /\ p[2] <= 6 /\ w[p].v.s \in marks
           /\ \A c \in 1..(p[2] - 1) : Value(w, 3, c).s \notin marks
        THEN Cell(v) ELSE w[p]]

\* worksheet.cell(row, column, value=...) over a block of cells: a MergedCell
\* among them raises
CanWrite(w, block) == \A p \in DOMAIN block : ~IsMerged(w, p[1], p[2])

\* _process_step_3_to_5
process_step_3_to_5(f, e) ==
    IF \/ client_funds_file \notin DOMAIN f.books
       \/ "load" \in e.faults
       \/ "SUMMARY" \notin sheetnames(f.books[client_funds_file])
       \/ "save_orig" \in e.faults
    THEN Ret("False", f, 0)
    ELSE print_worksheet_to_pdf(
             PutBook(f, client_funds_file,
                     Saved([f.books[client_funds_file] EXCEPT !.sheets["SUMMARY"] =
                                retitle(@, "balance after benefits",
                                        StrV("Balance before benefits"))])),
             client_funds_file, "SUMMARY", "weekly/before.pdf", e)

\* steps 10-13: the data rows from row 6 on, the totals and the header
WeekBlock(d) ==
    [p \in ((6..(Len(d.rows) + 5)) \X (1..6)) |->
        CASE p[2] <= 3 -> d.rows[p[1] - 5][p[2]]
          [] p[2] \in {4, 5} -> FloatV(d.rows[p[1] - 5][4].n)
          [] OTHER -> d.rows[p[1] - 5][5]]
    @@ [p \in {Len(d.rows) + 7} \X {4, 5} |-> FloatV(d.rows[1][4].n)]
    @@ (<<5, 5>> :> StrV("Total"))

\* _process_step_6_to_14
process_step_6_to_14(f, d, e) ==
    IF \/ weekly_benefits_file \notin DOMAIN f.books
       \/ "load" \in e.faults
       \/ week_tab_name \notin sheetnames(f.books[weekly_benefits_file])
       \/ ~CanWrite(f.books[weekly_benefits_file].sheets[week_tab_name], WeekBlock(d))
       \/ "save_orig" \in e.faults
    THEN Ret("False", f, 0)
    ELSE print_worksheet_to_pdf(
             PutBook(f, weekly_benefits_file,
                     Saved([f.books[weekly_benefits_file] EXCEPT !.sheets[week_tab_name] =
                                WriteBlock(
                                    WriteBlock(redate(@, {"W/E "}, FmtV("W/E ", Timestamp)),
                                               [p \in (6..max_row(@)) \X (1..6) |-> NoneV]),
                                    WeekBlock(d))])),
             weekly_benefits_file, week_tab_name, "weekly/benefits.pdf", e)

\* the texts of the model that hold 'date' or a '/'
PeriodMarks ==
    {"Date", "Date:", "Updated: ", "W/E ", "Benefits period: ", "01/01/2025", "25/09/2025"}

\* the first row from 4 on whose column A holds the surname, 0 when none does
\* (surnames are kept in upper case on the sheets of the model)
MatchRow(w, name) ==
    IF \E r \in 4..max_row(w) : Value(w, r, 1) = name
    THEN CHOOSE r \in 4..max_row(w) :
             Value(w, r, 1) = name /\ \A q \in 4..(r - 1) : Value(w, q, 1) # name
    ELSE 0

\* step 17: the balances of the SUMMARY rows that hold a name and a balance
BalanceBlock(summary) ==
    [p \in {q \in (4..max_row(summary)) \X {4} :
               Truthy(Value(summary, q[1], 1)) /\ Truthy(Value(summary, q[1], 4))} |->
        Value(summary, p[1], 4)]

\* step 19: the amount of each benefit in column E of its client's row
AmountBlock(w, d) ==
    [p \in {<<MatchRow(w, d.rows[i][1]), 5>> :
                i \in {j \in 1..Len(d.rows) : MatchRow(w, d.rows[j][1]) # 0}} |->
        FloatV(d.rows[CHOOSE i \in 1..Len(d.rows) : MatchRow(w, d.rows[i][1]) = p[1]][4].n)]

\* steps 17-19 on the BENEFITS sheet w
deposit_update(w, summary, d) ==
    WriteBlock(redate(WriteBlock(w, BalanceBlock(summary)), PeriodMarks,
                      FmtV("Benefits period: ", Timestamp)),
               AmountBlock(WriteBlock(w, BalanceBlock(summary)), d))

\* _process_step_15_to_19
process_step_15_to_19(f, d, e) ==
    IF \/ {deposit_withdrawal_file, client_funds_file} \ DOMAIN f.books # {}
       \/ "load" \in e.faults
       \/ "BENEFITS" \notin sheetnames(f.books[deposit_withdrawal_file])
       \/ "SUMMARY" \notin sheetnames(f.books[client_funds_file])
       \/ ~CanWrite(f.books[deposit_withdrawal_file].sheets["BENEFITS"],
                    BalanceBlock(f.books[client_funds_file].sheets["SUMMARY"])
                    @@ AmountBlock(f.books[deposit_withdrawal_file].sheets["BENEFITS"], d))
       \/ "save_orig" \in e.faults
    THEN Ret("False", f, 0)
    ELSE print_worksheet_to_pdf(
             PutBook(f, deposit_withdrawal_file,
                     Saved([f.books[deposit_withdrawal_file] EXCEPT !.sheets["BENEFITS"] =
                                deposit_update(@, f.books[client_funds_file].sheets["SUMMARY"],
                                               d)])),
             deposit_withdrawal_file, "BENEFITS", "weekly/deposit.pdf", e)

\* step 20: a row with the benefit below the last row of each client's tab;
\* step 21: the title of the SUMMARY tab
client_tabs_update(b, d) ==
    [b EXCEPT !.sheets =
        [n \in DOMAIN @ |->
            IF n = "SUMMARY"
            THEN retitle(@[n], "balance", StrV("Balance after benefits"))
            ELSE IF \E i \in 1..Len(d.rows) : d.rows[i][1].s = n
            THEN (LET i == CHOOSE j \in 1..Len(d.rows) : d.rows[j][1].s = n
                  IN [p \in {max_row(@[n]) + 1} \X (1..4) |->
                         Cell(<<DateV(Timestamp), StrV("SS Benefits"),
                                FloatV(d.rows[i][4].n), StrV("=C+D")>>[p[2]])])
                 @@ @[n]
            ELSE @[n]]]

\* _process_step_20_to_21
process_step_20_to_21(f, d, e) ==
    IF \/ client_funds_file \notin DOMAIN f.books
       \/ "load" \in e.faults
       \/ "SUMMARY" \notin sheetnames(f.books[client_funds_file])
       \/ "save_orig" \in e.faults
    THEN Ret("False", f, 0)
    ELSE print_worksheet_to_pdf(
             PutBook(f, client_funds_file,
                     Saved(client_tabs_update(f.books[client_funds_file], d))),
             client_funds_file, "SUMMARY", "weekly/after.pdf", e)

\* process_reconciliation: the PDF's result is not looked at
process_reconciliation(f, e) ==
    IF "mkdir" \in e.faults THEN Ret("False", f, 0)       \* weekly_folder.mkdir raised
    ELSE Ret("True",
             create_reconciliation_pdf(f, ReconItems, "weekly/Reconciliation.pdf",
                                       Timestamp, e).fs, 0)

\* the result of a procedure method that calls create_balance_report_pdf:
\* what it returned, the files, and the generator's counters afterwards
Done(ret, f, c) == [ret |-> ret, fs |-> f, count |-> c]

\* payment_df: the last name-like column and the amount of each row
PaymentFrame(d) ==
    DataFrame(<<"client_initials", "amount">>,
              [i \in 1..Len(d.rows) |-> <<d.rows[i][3], d.rows[i][4]>>])

\* a method that does not look at what create_balance_report_pdf returned;
\* b is what that call did
result_ignored(b) == Done("True", b.r.fs, b.count)

\* prepare_payment_data
prepare_payment_data(c, f, d, e) ==
    IF "mkdir" \in e.faults THEN Done("False", f, c)
    ELSE result_ignored(
             create_balance_report_pdf(c, f, PaymentFrame(d), "weekly/payment.pdf",
                                       "Payment Authorization Required", Timestamp, e))

\* self.client_funds_data as load_data leaves it
ClientFunds ==
    DataFrame(<<"Client", "Balance">>, << <<StrV("SMITH"), FloatV(1000)>> >>)
\* client_funds_with_interest, the interest in whole pounds
WithInterest(d) ==
    DataFrame(d.cols \o <<"Interest", "Balance_After_Interest">>,
              [i \in 1..Len(d.rows) |->
                  d.rows[i] \o <<FloatV(d.rows[i][2].n \div 1000),
                                 FloatV(d.rows[i][2].n + d.rows[i][2].n \div 1000)>>])

\* perform_monthly_reconciliation: the three PDFs, none of whose results is
\* looked at; b is what the call before did
monthly_reconciliation_pdf(b, e) ==
    Done("True",
         create_reconciliation_pdf(b.r.fs, ReconItems, "monthly/Reconciliation.pdf",
                                   Timestamp, e).fs,
         b.count)

balance_after_interest(b, cf, e) ==
    monthly_reconciliation_pdf(
        create_balance_report_pdf(b.count, b.r.fs, WithInterest(cf), "monthly/after.pdf",
                                  "LD Clients Account - Balance after interest",
                                  Timestamp, e),
        e)

perform_monthly_reconciliation(c, f, cf, e) ==
    IF "mkdir" \in e.faults THEN Done("False", f, c)
    ELSE IF ~cf.df THEN Done("True", f, c)
    ELSE balance_after_interest(
             create_balance_report_pdf(c, f, cf, "monthly/before.pdf",
                                       "LD Clients Account - Balance before interest",
                                       Timestamp, e),
             cf, e)

\* six_month_history, two of its 26 weekly rows
HistoryFrame ==
    DataFrame(<<"Date", "Transaction_Type", "Amount", "Balance">>,
              << <<StrV("01/01/2025"), StrV("Weekly Benefit"), StrV("100.00"),
                   StrV("1,000.00")>>,
                 <<StrV("01/01/2025"), StrV("Payment"), StrV("-50.00"),
                   StrV("1,050.00")>> >>)
MaxClients == 50
\* reports/6Month_Balance_Update_{client_initials}_{date}.pdf
SixMonthPdf(client) ==
    IF client = StrV("SMITH") THEN "reports/6Month_S.pdf" ELSE "reports/6Month_UK.pdf"

\* the loop over the clients: b is what the last call of
\* create_balance_report_pdf did, i the next client
RECURSIVE six_month_clients(_, _, _, _)
six_month_clients(b, rows, i, e) ==
    IF i > Min2(Len(rows), MaxClients) THEN b
    ELSE six_month_clients(
             create_balance_report_pdf(b.count, b.r.fs, HistoryFrame, SixMonthPdf(rows[i][1]),
                                       "6-Month Balance Update", Timestamp, e),
             rows, i + 1, e)

\* the loop's result returned with the flag left set
six_month_done_flag_kept(b) ==
    [ret |-> "True", fs |-> b.r.fs, count |-> b.count, flag |-> TRUE]

\* what the loop leaves, as the method returns it with the flag cleared
six_month_done(b) == [ret |-> "True", fs |-> b.r.fs, count |-> b.count, flag |-> FALSE]

\* generate_six_month_balance_update past the re-entry test, lines 2253-2320
six_month_update(c, f, month, cf, e) ==
    IF "mkdir" \in e.faults                                 \* except: clear the flag
    THEN [ret |-> "False", fs |-> f, count |-> c, flag |-> FALSE]
    ELSE IF month \notin {3, 9} \/ ~cf.df
    THEN [ret |-> "True", fs |-> f, count |-> c, flag |-> FALSE]
    ELSE six_month_done(six_month_clients([count |-> c, r |-> Ret("True", f, 0)],
                                          cf.rows, 1, e))

\* the method without its re-entry test
six_month_update_unguarded(c, f, g, month, cf, e) == six_month_update(c, f, month, cf, e)

\* generate_six_month_balance_update; g is _generating_six_month_update,
\* flag its value when the method returns
generate_six_month_balance_update(c, f, g, month, cf, e) ==
    IF g THEN [ret |-> "True", fs |-> f, count |-> c, flag |-> g]
    ELSE six_month_update(c, f, month, cf, e)

\* summary_data_for_pdf, two of its eight rows
SummaryFrame ==
    DataFrame(<<"Item", "Value">>,
              << <<StrV("Week Number"), StrV("Week 01")>>,
                 <<StrV("Status"), StrV("Completed Successfully")>> >>)

\* generate_reports
generate_reports(c, f, e) ==
    IF "mkdir" \in e.faults THEN Done("False", f, c)
    ELSE result_ignored(
             create_balance_report_pdf(c, f, SummaryFrame, "reports/Final.pdf",
                                       "LDCC1 Processing Summary", Timestamp, e))

(***************************************************************************)
(* SpecProc: one run of start_processing, and the direct calls of          *)
(* generate_six_month_balance_update a test makes on an idle processor.    *)
(***************************************************************************)
MaxSixMonthCalls == 2  \* direct calls of generate_six_month_balance_update

ProcSummary ==
    Cells(<<1, 1>> :> StrV("Balance after benefits") @@ <<4, 1>> :> StrV("SMITH")
          @@ <<4, 4>> :> FloatV(1000))
\* every workbook of the procedure present: the SUMMARY tab and one client's
\* tab, the BENEFITS tab, the week's tab, the reconciliation
ProcDisk ==
    [books |->
        (client_funds_file :>
            Workbook("SUMMARY", ("SUMMARY" :> ProcSummary)
                                @@ ("SMITH" :> Cells(<<1, 1>> :> StrV("SMITH")))))
        @@ (deposit_withdrawal_file :>
            Workbook("BENEFITS",
                     ("BENEFITS" :> Cells(<<1, 1>> :> StrV("Deposits")
                                          @@ <<3, 1>> :> StrV("Date:")
                                          @@ <<4, 1>> :> StrV("SMITH")))))
        @@ (weekly_benefits_file :>
            Workbook(week_tab_name,
                     (week_tab_name :> Cells(<<3, 1>> :> FmtV("W/E ", 0)
                                             @@ <<5, 1>> :> StrV("Surname")
                                             @@ <<6, 1>> :> StrV("JONES")))))
        @@ (bank_reconciliation_file :> Workbook("Sheet1", ("Sheet1" :> ReconSheet))),
     pdfs |-> NoPdfs]
\* the disks a run starts on: all workbooks, or all but the week's
ProcDisks == {ProcDisk, RemoveFile(ProcDisk, weekly_benefits_file)}

ProcInit ==
    /\ MutIdle
    /\ count = <<>>
    /\ fs \in ProcDisks
    /\ last = NoCall
    /\ hist = <<>>
    /\ ncalls = 0
    /\ nfaults = 0
    /\ gui \in BOOLEAN
    /\ ppc = "idle"
    /\ trail = <<>>
    /\ generating = FALSE

\* the environments one step can meet: one operation fails, or the user
\* cancels the save dialog, in at most one step of a behaviour
ProcEnvs ==
    {e \in [gui : {gui}, dialog : IF gui THEN {"accept", "cancel"} ELSE {"accept"},
            faults : {{}} \cup {{k} : k \in {"render", "mkdir", "save_orig"}},
            now : {Len(trail)}] :
        /\ e.faults = {} \/ e.dialog = "accept"
        /\ nfaults = 0 \/ Plain(e)}
\* datetime.now().month
Months == {3, 6}

\* start_processing, lines 2434-2449: the inputs are validated and loaded
StartProcessing ==
    /\ ppc = "idle"
    /\ \E ok \in BOOLEAN : ppc' = IF ok THEN "steps 3-5" ELSE "returned"
    /\ UNCHANGED <<trail, generating, count, fs, last, hist, ncalls, nfaults, gui>>
    /\ UNCHANGED mvars

\* a step returned r, having left the counters c; start_processing goes on
\* to next, or returns when the step returned False and its result is
\* looked at
StepReturned(r, c, strategy, next, looked_at, e) ==
    /\ fs' = r.fs
    /\ count' = c
    /\ trail' = Append(trail, ppc)
    /\ ppc' = IF r.ret = "True" \/ ~looked_at THEN next ELSE "returned"
    /\ last' = [NoCall EXCEPT !.op = ppc, !.ret = r.ret, !.strategy = strategy,
                              !.faults = e.faults, !.dialog = e.dialog]
    /\ nfaults' = nfaults + (IF Plain(e) THEN 0 ELSE 1)
    /\ UNCHANGED <<generating, hist, ncalls, gui>>
    /\ UNCHANGED mvars
\* a benefits step returned what _print_worksheet_to_pdf returned
BenefitsStepReturned(r, next, e) == StepReturned(r, count, r.strategy, next, TRUE, e)

\* process_benefits, lines 1571-1588
Step3to5 ==
    /\ ppc = "steps 3-5"
    /\ \E e \in ProcEnvs : BenefitsStepReturned(process_step_3_to_5(fs, e), "steps 6-14", e)
Step6to14 ==
    /\ ppc = "steps 6-14"
    /\ \E e \in ProcEnvs :
        BenefitsStepReturned(process_step_6_to_14(fs, BenefitsData, e), "steps 15-19", e)
Step15to19 ==
    /\ ppc = "steps 15-19"
    /\ \E e \in ProcEnvs :
        BenefitsStepReturned(process_step_15_to_19(fs, BenefitsData, e), "steps 20-21", e)
Step20to21 ==
    /\ ppc = "steps 20-21"
    /\ \E e \in ProcEnvs :
        BenefitsStepReturned(process_step_20_to_21(fs, BenefitsData, e), "reconciliation", e)

\* start_processing, lines 2455-2457
ProcessReconciliation ==
    /\ ppc = "reconciliation"
    /\ \E e \in ProcEnvs : StepReturned(process_reconciliation(fs, e), count, 0, "monthly", TRUE, e)

\* a step that calls create_balance_report_pdf returned d
TailReturned(d, next, looked_at, e) == StepReturned(d, d.count, 0, next, looked_at, e)

\* start_processing, lines 2459-2463: when the box is ticked
MonthlyReconciliation ==
    /\ ppc = "monthly"
    /\ \E requested \in BOOLEAN, e \in ProcEnvs :
        IF requested
        THEN TailReturned(perform_monthly_reconciliation(count, fs, ClientFunds, e),
                          "payments", FALSE, e)
        ELSE /\ ppc' = "payments"
             /\ UNCHANGED <<trail, generating, count, fs, last, hist, ncalls, nfaults, gui>>
             /\ UNCHANGED mvars

\* start_processing, lines 2465-2468: when payments are selected
PreparePayments ==
    /\ ppc = "payments"
    /\ \E selected \in BOOLEAN, e \in ProcEnvs :
        IF selected
        THEN TailReturned(prepare_payment_data(count, fs, BenefitsData, e), "six-month", TRUE,
                          e)
        ELSE /\ ppc' = "six-month"
             /\ UNCHANGED <<trail, generating, count, fs, last, hist, ncalls, nfaults, gui>>
             /\ UNCHANGED mvars

\* generate_six_month_balance_update returned r to a caller that found the
\* flag as `generating` holds it
SixMonthReturned(r, e) ==
    /\ fs' = r.fs
    /\ count' = r.count
    /\ generating' = r.flag
    /\ last' = [NoCall EXCEPT !.op = "six_month", !.ret = r.ret, !.warned = generating,
                              !.faults = e.faults, !.dialog = e.dialog]
    /\ nfaults' = nfaults + (IF Plain(e) THEN 0 ELSE 1)
    /\ UNCHANGED <<hist, gui>>
    /\ UNCHANGED mvars

\* start_processing, lines 2501-2503: the result is logged, not acted on
SixMonthUpdate ==
    /\ ppc = "six-month"
    /\ \E month \in Months, e \in ProcEnvs :
        SixMonthReturned(generate_six_month_balance_update(count, fs, generating, month,
                                                           ClientFunds, e), e)
    /\ trail' = Append(trail, ppc)
    /\ ppc' = "reports"
    /\ UNCHANGED ncalls

\* start_processing, lines 2505-2507
GenerateReports ==
    /\ ppc = "reports"
    /\ \E e \in ProcEnvs : TailReturned(generate_reports(count, fs, e), "done", TRUE, e)

\* test_six_month_update_protection, line 110
TestSetsFlag ==
    /\ ppc = "idle"
    /\ ~generating
    /\ generating' = TRUE
    /\ UNCHANGED <<ppc, trail, count, fs, last, hist, ncalls, nfaults, gui>>
    /\ UNCHANGED mvars

\* test_six_month_update_protection, line 113: a direct call
CallSixMonth ==
    /\ ppc = "idle"
    /\ ncalls < MaxSixMonthCalls
    /\ \E month \in Months, cf \in {NoData, ClientFunds}, e \in ProcEnvs :
        SixMonthReturned(generate_six_month_balance_update(count, fs, generating, month,
                                                           cf, e), e)
    /\ ncalls' = ncalls + 1
    /\ UNCHANGED <<ppc, trail>>

ProcNext ==
    \/ StartProcessing \/ Step3to5 \/ Step6to14 \/ Step15to19 \/ Step20to21
    \/ ProcessReconciliation \/ MonthlyReconciliation \/ PreparePayments
    \/ SixMonthUpdate \/ GenerateReports \/ TestSetsFlag \/ CallSixMonth

SpecProc == ProcInit /\ [][ProcNext]_vars

(***************************************************************************)
(* Properties of the mutators (checked under SpecMut).                     *)
(***************************************************************************)
NotesBlock == (1..NoteRows) \X (NoteFirstCol..(NoteColLimit - 1))
\* the cell contents outside the processing-notes block
DataContents(w) == [p \in (DOMAIN Contents(w)) \ NotesBlock |-> Contents(w)[p]]

\* C2: after the second update-and-write sequence with the same dataset,
\* title and timestamp the worksheet holds the same cells as after the first
\* (here: outside the notes block) and max_row has not grown.
C2_SecondRunSameContents ==
    (run = 2 /\ mpc = "saved" /\ HasRows(data))
        => /\ DataContents(ws) = DataContents(snap)
           /\ max_row(ws) <= max_row(snap)

\* every row 3..max_row holds a value in one of the scanned leading columns
NoEmptyRowWithinBounds(w) ==
    \A r \in FirstScanRow..max_row(w) :
        \E c \in 1..Min2(ScanColLimit - 1, max_column(w)) : Value(w, r, c) # NoneV

\* C3: on a worksheet with more rows than the default row and no empty row
\* within its bounds, _find_data_start_row returns the fixed default row 10,
\* a row below max_row.
C3_FullSheetGivesDefaultRow ==
    (mpc = "found" /\ max_row(Contents(ws)) > DefaultStartRow
                   /\ NoEmptyRowWithinBounds(Contents(ws)))
        => /\ found = 10
           /\ found < max_row(Contents(ws))

C1_AtMostFiveAttempts ==
    /\ \A key \in DOMAIN hist :
        /\ hist[key].passed <= 5
        /\ hist[key].strategy <= hist[key].passed
    /\ (last.op = "balance" /\ count[last.key] >= 6)
        => (last.ret = "True" /\ last.strategy = 0 /\ ~last.passed)

\* a key has had its 7th call after five attempts that each rendered
C1_SeventhCall ==
    /\ last.op = "balance"
    /\ count[last.key] = 7
    /\ hist[last.key].passed = 5
    /\ hist[last.key].strategy = 5

OutKey == pdf_key("out.pdf", "Balance Report")

\* C4: after six calls with destination "out.pdf" and title "Balance Report"
\* (the Client Funds workbook having its SUMMARY sheet) the render strategies
\* have been entered exactly 5 times, and the 6th call logged the throttle
\* warning and returned True.
C4_SixCallsFiveRenders ==
    (/\ last.op = "balance"
     /\ last.key = OutKey
     /\ count[OutKey] = 6
     /\ "SUMMARY" \in sheetnames(fs.books[client_funds_file]))
        => /\ hist[OutKey].strategy = 5
           /\ last.warned
           /\ last.ret = "True"

\* C5: a throttled call (the 6th or later for its key) returns True, leaves
\* every workbook, temporary file and PDF as it was, and changes no counter
\* but its key's, which it increments.
C5_ThrottledCallIsNoOp ==
    [][(ncalls' = ncalls + 1 /\ last'.op = "balance" /\ count'[last'.key] >= 6)
        => /\ last'.ret = "True"
           /\ fs' = fs
           /\ DOMAIN count' = DOMAIN count
           /\ \A k \in DOMAIN count :
                count'[k] = IF k = last'.key THEN count[k] + 1 ELSE count[k]]_vars

\* a call was throttled after attempts that all failed, with another key in use
C5_ThrottledAfterFailures ==
    /\ last.op = "balance"
    /\ last.warned
    /\ hist[last.key].passed = 5
    /\ hist[last.key].strategy = 0
    /\ Cardinality(DOMAIN count) >= 2

(***************************************************************************)
(* Properties of the entry points (checked under SpecRender).              *)
(***************************************************************************)
Entries == {"balance", "reconciliation", "print"}
\* the failures that end every call that meets them
FatalFaults == {"load_print", "makedirs", "render"}

\* C7 (as amended): the three entry points never let an exception out and
\* return a boolean; a failure to load the workbook to print, to create the
\* destination directory or to render, and a cancelled dialog, end the call
\* with False.
C7_NeverRaises ==
    last.op \in Entries
        => /\ last.ret \in {"True", "False"}
           /\ (last.faults \cap FatalFaults # {} \/ last.dialog = "cancel")
                => last.ret = "False"

\* the reconciliation entry met a rendering failure
C7_RenderFailureMet ==
    /\ last.op = "reconciliation"
    /\ "render" \in last.faults
    /\ last.strategy >= 1
    /\ last.ret = "False"

\* C7 as stated: every internal failure of a call ends it with False.  The
\* failures named here are ones the call is certain to meet: saving the
\* original workbook in a balance report whose sheet exists, and the dialog
\* of a direct print.
C7_EveryFailureEndsFalse ==
    /\ last.op \in Entries => last.ret \in {"True", "False"}
    /\ (/\ last.op = "balance"
        /\ last.key[Len(last.key)] = "Balance Report"
        /\ "SUMMARY" \in sheetnames(fs.books[client_funds_file])
        /\ "save_orig" \in last.faults) => last.ret = "False"
    /\ (last.op = "print" /\ last.dialog = "error") => last.ret = "False"

\* C8: a render request that reaches rendering tries the office-suite
\* conversion first, here with the office suite installed.
C8_OfficeSuiteTriedFirst ==
    (last.op = "print" /\ last.office /\ last.strategy > 0)
        => last.tried[1] = "_try_libreoffice_print"

\* C9: with the office suite unavailable, a render request for a worksheet
\* with values, in an environment without faults and with the dialog (when
\* shown) accepted, returns True and leaves a PDF at the destination.
C9_InternalRendererCompletes ==
    (/\ last.op = "print"
     /\ ~last.office
     /\ last.cells > 0
     /\ last.faults = {}
     /\ last.dialog = "accept")
        => /\ last.ret = "True"
           /\ abspath(last.filename) \in DOMAIN fs.pdfs

\* C10: rendering a worksheet without values through _print_worksheet_to_pdf
\* returns False and leaves no PDF without content at the destination.
C10_EmptySheetRendersFalse ==
    (last.op = "print" /\ last.cells = 0)
        => /\ last.ret = "False"
           /\ \A p \in DOMAIN fs.pdfs : fs.pdfs[p].drawn # {}

(***************************************************************************)
(* Properties of the results (checked under SpecRender).                   *)
(***************************************************************************)
\* C11: whenever an entry point returns True, a PDF exists at the
\* destination path the caller gave.
C11_TruePdfAtDestination ==
    (last.op \in Entries /\ last.ret = "True")
        => abspath(last.filename) \in DOMAIN fs.pdfs

\* C13: no entry point enters a render strategy unless the call passed the
\* throttle.
C13_RenderOnlyPastThrottle ==
    (last.op \in Entries /\ last.strategy > 0) => last.passed

(***************************************************************************)
(* Properties of calls in sequence (checked under SpecBurst).              *)
(***************************************************************************)
\* C12: a call for one (filename, title) pair leaves the throttle counter of
\* every other pair as it was.
C12_CounterPerPair ==
    [][(ncalls' = ncalls + 1 /\ last'.op = "balance")
        => \A q \in BurstRequests :
            q[1] # last'.filename
                => /\ pdf_key(q[1], q[2]) \in DOMAIN count'
                        <=> pdf_key(q[1], q[2]) \in DOMAIN count
                   /\ pdf_key(q[1], q[2]) \in DOMAIN count
                        => count'[pdf_key(q[1], q[2])] = count[pdf_key(q[1], q[2])]]_vars

\* the working copies on disk
TempFiles(f) ==
    DOMAIN f.books \ {client_funds_file, bank_reconciliation_file, deposit_withdrawal_file}

\* C15: each call that renders saves its working copy under a name no other
\* call uses: where the copies cannot be removed, the copy it leaves is a file
\* that was not on disk before the call.
C15_OwnTempFilePerCall ==
    [][(ncalls' = ncalls + 1 /\ last'.strategy >= 1 /\ "remove" \in last'.faults)
        => \E n \in TempFiles(fs') : n \notin TempFiles(fs)]_vars

(***************************************************************************)
(* Properties of the working copies (checked under SpecRender).            *)
(***************************************************************************)
\* the environment of the call just made, with nothing failing
CalmEnv(dialog) == [gui |-> gui, dialog |-> dialog, faults |-> {}, now |-> ncalls]

\* C14: a call of create_balance_report_pdf or create_reconciliation_pdf in
\* which os.remove works leaves no working copy on disk that was not there
\* before it, whether the render succeeded or failed; and a call in which
\* os.remove fails returns what it returns when os.remove works, with the
\* same PDFs on disk.
C14_WorkingCopiesRemoved ==
    [][(ncalls' = ncalls + 1 /\ last'.op \in {"balance", "reconciliation"})
        => /\ "remove" \notin last'.faults => TempFiles(fs') \subseteq TempFiles(fs)
           /\ (last'.faults = {"remove"} /\ last'.op = "reconciliation")
                => /\ last'.ret = create_reconciliation_pdf(
                                      fs, ReconItems, last'.filename, Timestamp,
                                      CalmEnv(last'.dialog)).ret
                   /\ fs'.pdfs = create_reconciliation_pdf(
                                      fs, ReconItems, last'.filename, Timestamp,
                                      CalmEnv(last'.dialog)).fs.pdfs
           /\ (last'.faults = {"remove"} /\ last'.op = "balance")
                => \E d \in CallFrames :
                     /\ last'.ret = create_balance_report_pdf(
                                        count, fs, d, last'.filename,
                                        last'.key[Len(last'.key)], Timestamp,
                                        CalmEnv(last'.dialog)).r.ret
                     /\ fs'.pdfs = create_balance_report_pdf(
                                        count, fs, d, last'.filename,
                                        last'.key[Len(last'.key)], Timestamp,
                                        CalmEnv(last'.dialog)).r.fs.pdfs]_vars

\* a render failed in a call that had saved a working copy, and the copy is gone
C14_CopyGoneAfterFailedRender ==
    /\ last.op = "balance"
    /\ "render" \in last.faults
    /\ last.strategy >= 1
    /\ last.ret = "False"
    /\ TempFiles(fs) = {}

(***************************************************************************)
(* Properties of the dataset writers                                       *)
(***************************************************************************)
\* the states right after _update_worksheet_data and right after the benefits
\* sheet's update wrote a frame with rows; found is the start row either used
SummaryWritten == mpc = "notes" /\ mlog.op = "data"
BenefitsWritten == mpc = "benefits" /\ HasRows(data)

\* row `row` of the sheet holds the values vs in columns 1..Len(vs), merged
\* cells apart
RowHolds(w, row, vs) ==
    \A j \in 1..Len(vs) : IsMerged(w, row, j) \/ Value(w, row, j) = vs[j]
RowBlank(w, row, ncols) == \A j \in 1..ncols : Value(w, row, j) = NoneV
\* row i of the frame as _update_worksheet_data converts it
CoercedRow(d, i) == [j \in 1..Len(d.cols) |-> Coerce(d.rows[i][j])]

\* C16 (as the code has it): two rows of [Client, Balance, Date] written at
\* start row 6 by the benefits sheet's update put the column names in row 6,
\* the rows in 7 and 8 and leave row 9 empty; written at start row 6 by
\* _update_worksheet_data, which writes no column names, they put the rows in
\* 6 and 7 and leave row 8 empty.
C16_HeadersOnlyOnBenefitsSheet ==
    /\ (BenefitsWritten /\ data = TwoClients /\ found = 6) =>
           /\ RowHolds(ws, 6, [j \in 1..Len(data.cols) |-> StrV(data.cols[j])])
           /\ RowHolds(ws, 7, data.rows[1])
           /\ RowHolds(ws, 8, data.rows[2])
           /\ RowBlank(ws, 9, Len(data.cols))
    /\ (SummaryWritten /\ data = TwoClients /\ found = 6) =>
           /\ RowHolds(ws, 6, CoercedRow(data, 1))
           /\ RowHolds(ws, 7, CoercedRow(data, 2))
           /\ RowBlank(ws, 8, Len(data.cols))

\* the benefits sheet's update wrote the two rows at start row 6
C16_BenefitsWroteAtRowSix ==
    BenefitsWritten /\ data = TwoClients /\ found = 6
        /\ Value(ws, 8, 1) = StrV("Client B")

\* C16 (as stated): whichever writer wrote the two rows at start row 6, the
\* column names are in row 6, the rows in 7 and 8, and row 9 is empty.
C16_HeadersInRowSix ==
    ((BenefitsWritten \/ SummaryWritten) /\ data = TwoClients /\ found = 6) =>
        /\ RowHolds(ws, 6, [j \in 1..Len(data.cols) |-> StrV(data.cols[j])])
        /\ RowHolds(ws, 7, data.rows[1]) \/ RowHolds(ws, 7, CoercedRow(data, 1))
        /\ RowHolds(ws, 8, data.rows[2]) \/ RowHolds(ws, 8, CoercedRow(data, 2))
        /\ RowBlank(ws, 9, Len(data.cols))

\* the first row of 3 .. max_row + 1 whose columns 1..K are all empty, and
\* the default row when no row is scanned
FirstEmptyRow(w, K) ==
    LET S == {r \in FirstScanRow..(max_row(w) + 1) : RowBlank(w, r, K)}
    IN IF S = {} THEN DefaultStartRow ELSE CHOOSE r \in S : \A y \in S : r <= y

\* C17 (as the code has it): _find_data_start_row returns the first row, in
\* ascending order from row 3 up to max_row + 1, whose first K columns are
\* all empty, with K = min(5, max_column); it returns 10 when max_row is
\* below 2 and no row is scanned.
C17_FirstRowEmptyInFiveColumns ==
    mpc = "found" =>
        found = FirstEmptyRow(Contents(ws), Min2(5, max_column(Contents(ws))))

\* the search returned row 3 of a sheet whose row 3 holds a value in column 6
C17_SixthColumnNotScanned ==
    mpc = "found" /\ found = 3 /\ Value(ws, 3, 6) # NoneV

\* C17 (as stated): the row returned is the first whose first K columns are
\* all empty, with K = min(6, max_column).
C17_FirstRowEmptyInSixColumns ==
    (mpc = "found" /\ max_row(Contents(ws)) >= 2) =>
        found = FirstEmptyRow(Contents(ws), Min2(6, max_column(Contents(ws))))

\* C18 (as stated): after _update_worksheet_data wrote a frame of n rows and
\* c columns at its start row, every cell of rows start_row .. start_row+n+9 and columns
\* 1..c that is not part of a merged range holds the frame's value for that
\* cell or is empty: nothing an earlier, larger dataset left there remains.
C18_RegionHoldsOnlyTheDataset ==
    SummaryWritten =>
        \A r \in found..(found + Len(data.rows) + ClearMargin - 1), c \in 1..Len(data.cols) :
            ~IsMerged(ws, r, c) =>
                Value(ws, r, c) =
                    IF r - found < Len(data.rows) /\ NotNa(data.rows[r - found + 1][c])
                    THEN Coerce(data.rows[r - found + 1][c])
                    ELSE NoneV

\* C19: after either writer wrote the frame, the target cell of every null /
\* NaN value of the frame is empty.  _update_worksheet_data writes row i of
\* the frame to row found + i - 1, the benefits sheet's update to row found + i.
C19_NullLeavesCellEmpty ==
    /\ SummaryWritten =>
           \A i \in 1..Len(data.rows), j \in 1..Len(data.cols) :
               ~NotNa(data.rows[i][j]) => Value(ws, found + i - 1, j) = NoneV
    /\ BenefitsWritten =>
           \A i \in 1..Len(data.rows), j \in 1..Len(data.cols) :
               ~NotNa(data.rows[i][j]) => Value(ws, found + i, j) = NoneV

\* C20: a cell of the frame that cannot be written (a merged cell) is passed
\* over: the writer does not raise, so the save and the render that follow
\* it run, and every other cell of the frame holds its value.
C20_OtherCellsStillWritten ==
    /\ SummaryWritten =>
           /\ ~mlog.raised
           /\ \A i \in 1..Len(data.rows), j \in 1..Len(data.cols) :
                  (NotNa(data.rows[i][j]) /\ ~IsMerged(ws, found + i - 1, j)) =>
                      Value(ws, found + i - 1, j) = Coerce(data.rows[i][j])
    /\ BenefitsWritten =>
           \A i \in 1..Len(data.rows), j \in 1..Len(data.cols) :
               ~IsMerged(ws, found + i, j) => Value(ws, found + i, j) = data.rows[i][j]

\* C4 of the first row is merged and was passed over; the second row was
\* written to the end
C20_WrittenPastMergedCell ==
    SummaryWritten /\ mlog.reported # {} /\ Len(data.rows) = 2
        /\ \E p \in mlog.reported : p[1] = found
        /\ Value(ws, found + 1, Len(data.cols)) = Coerce(data.rows[2][Len(data.cols)])

(***************************************************************************)
(* Properties of the header update, the notes and the save sequence        *)
(***************************************************************************)
\* C21: when no text of rows 1..5, columns 1..5 holds a title or date
\* keyword, _update_worksheet_header leaves the title in A1 and the
\* "Generated:" timestamp in A2 (a merged A2 apart).
C21_FallbackHeaderWritten ==
    [][(/\ mpc \in {"start", "saved"} /\ mpc' = "data"
        /\ \A r \in 1..HeaderRows, c \in 1..HeaderCols :
               Value(ws, r, c).k = "str" =>
                   KeywordsIn(Value(ws, r, c).s) \cap (TitleKeywords \cup DateKeywords) = {})
       => (/\ Value(ws', 1, 1) = StrV(MutTitle)
           /\ IsMerged(ws', 2, 1) \/ Value(ws', 2, 1) = FmtV("Generated: ", MutTimestamp))]_vars

\* C22: a call of create_balance_report_pdf that reaches
\* _update_and_print_worksheet and finds the SUMMARY sheet has the updated
\* workbook in the original file whatever fails afterwards (the copy, the
\* render); and when the save to the original fails, the original file is
\* as before and the call returns what it returns when the save works, with
\* the same PDFs on disk.
C22_OriginalSavedBeforeRender ==
    [][(/\ ncalls' = ncalls + 1 /\ last'.op = "balance"
        /\ last'.key[Len(last'.key)] = "Balance Report"
        /\ client_funds_file \in DOMAIN fs.books
        /\ "SUMMARY" \in sheetnames(fs.books[client_funds_file]))
        => \E d \in CallFrames :
             /\ last'.faults \cap {"load", "save_orig"} = {}
                  => fs'.books[client_funds_file] =
                         Saved([fs.books[client_funds_file] EXCEPT !.sheets["SUMMARY"] =
                                    UpdatedSheet(@, d, "Balance Report", Timestamp)])
             /\ last'.faults = {"save_orig"}
                  => /\ fs'.books[client_funds_file] = fs.books[client_funds_file]
                     /\ last'.ret = create_balance_report_pdf(
                                        count, fs, d, last'.filename, "Balance Report",
                                        Timestamp, CalmEnv(last'.dialog)).r.ret
                     /\ fs'.pdfs = create_balance_report_pdf(
                                        count, fs, d, last'.filename, "Balance Report",
                                        Timestamp, CalmEnv(last'.dialog)).r.fs.pdfs]_vars

\* the save to the original failed, the file is as it was, and the call
\* rendered a PDF and returned True
C22_RenderedThoughSaveFailed ==
    /\ last.op = "balance" /\ last.faults = {"save_orig"} /\ last.ret = "True"
    /\ last.key[Len(last.key)] = "Balance Report"
    /\ fs.pdfs # NoPdfs
    /\ client_funds_file \in DOMAIN fs.books
    /\ fs.books[client_funds_file] \in {D.books[client_funds_file] : D \in Disks}

(***************************************************************************)
(* Properties of the weekly procedure (checked under SpecProc).            *)
(***************************************************************************)
\* C23 (as stated): a step of the procedure in which the render was entered
\* and the PDF failed does not end start_processing: the steps after it run.
C23_FailedPdfDoesNotAbort ==
    (last.op \in {"steps 3-5", "steps 6-14", "steps 15-19", "steps 20-21"}
     /\ last.strategy >= 1 /\ last.ret = "False")
        => ppc # "returned"

\* a step in which generate_six_month_balance_update is called and returns
SixMonthCalled ==
    \/ ppc = "idle" /\ ncalls' = ncalls + 1
    \/ ppc = "six-month" /\ ppc' = "reports"
SixMonthPdfs == {abspath(SixMonthPdf(StrV("SMITH"))), abspath(SixMonthPdf(StrV("Unknown")))}

\* C24: a call of generate_six_month_balance_update that finds
\* _generating_six_month_update set returns True, leaves every workbook and
\* every PDF on the disk as it was, renders nothing, and leaves the flag set.
C24_ReentryReturnsAtOnce ==
    [][(SixMonthCalled /\ generating)
           => /\ last'.ret = "True"
              /\ fs' = fs
              /\ count' = count
              /\ generating']_vars

\* a direct call found the flag set by the test and returned True with no
\* six-month PDF on the disk
C24_CalledWithFlagSet ==
    /\ last.op = "six_month"
    /\ last.warned
    /\ last.ret = "True"
    /\ ncalls >= 1
    /\ generating
    /\ SixMonthPdfs \cap DOMAIN fs.pdfs = {}

\* C27: a call of generate_six_month_balance_update that found the flag
\* clear leaves it False when it returns: after the client loop, after the
\* early return outside March and September, and after an exception.
C27_FlagClearedOnEveryExit ==
    [][(SixMonthCalled /\ ~generating) => ~generating']_vars

\* a call that found the flag clear ran the client loop in March, wrote the
\* six-month PDFs and returned with the flag clear
C27_LoopRanAndFlagCleared ==
    /\ last.op = "six_month"
    /\ ~last.warned
    /\ last.ret = "True"
    /\ SixMonthPdfs \cap DOMAIN fs.pdfs # {}
    /\ ~generating

(***************************************************************************)
(* Properties of _update_and_print_worksheet (checked under SpecRender).   *)
(***************************************************************************)
\* the Client Funds workbook is on the disk f and has no SUMMARY sheet
SummaryAbsent(f) ==
    /\ client_funds_file \in DOMAIN f.books
    /\ "SUMMARY" \notin sheetnames(f.books[client_funds_file])
\* the step is a call of create_balance_report_pdf that the dispatch hands to
\* _update_and_print_worksheet
SummaryCalled ==
    /\ ncalls' = ncalls + 1
    /\ last'.op = "balance"
    /\ last'.key[Len(last'.key)] = "Balance Report"

\* C25: when the workbook has no sheet of the given name,
\* _update_and_print_worksheet returns False and leaves the disk as it was:
\* the workbook is not saved, no copy is left, no render strategy is entered
\* and no PDF is written.
C25_AbsentSheetChangesNothing ==
    [][(SummaryCalled /\ SummaryAbsent(fs))
           => /\ last'.ret = "False"
              /\ last'.strategy = 0
              /\ fs' = fs]_vars

\* a call in an environment without faults returned False because the
\* SUMMARY sheet was absent
C25_ReturnedFalseForAbsentSheet ==
    /\ last.op = "balance"
    /\ last.key[Len(last.key)] = "Balance Report"
    /\ last.faults = {}
    /\ SummaryAbsent(fs)
    /\ last.ret = "False"

\* C26 (as stated): a PDF that _print_worksheet_to_pdf left through the
\* internal renderer with the result True shows every cell of the rendered
\* worksheet that holds a value.
C26_EveryCellInTheGrid ==
    (last.op = "print" /\ last.ret = "True")
        => \A p \in DOMAIN fs.pdfs :
               fs.pdfs[p].by = "_excel_like_pdf_generation"
                   => DOMAIN Contents(SheetOf(fs.books[client_funds_file], fs.pdfs[p].sheet))
                          \subseteq fs.pdfs[p].drawn

(***************************************************************************)
(* Properties of _create_benefits_worksheet_pdf.                           *)
(***************************************************************************)
\* the step is a call of create_balance_report_pdf that the dispatch hands to
\* _create_benefits_worksheet_pdf, with the Deposit & Withdrawal Sheet on disk
BenefitsCalled ==
    /\ ncalls' = ncalls + 1
    /\ last'.op = "balance"
    /\ last'.key[Len(last'.key)] = "Weekly Benefits"
    /\ deposit_withdrawal_file \in DOMAIN fs.books

\* C28: _create_benefits_worksheet_pdf changes the Deposit & Withdrawal Sheet
\* on disk only when the render returned True; after a failed render or an
\* exception the file holds what it held before the call.
C28_OriginalSavedOnlyAfterRender ==
    [][(BenefitsCalled /\ last'.ret # "True")
           => /\ deposit_withdrawal_file \in DOMAIN fs'.books
              /\ fs'.books[deposit_withdrawal_file] = fs.books[deposit_withdrawal_file]]_vars

\* every render strategy failed on the updated copy and the Deposit &
\* Withdrawal Sheet still holds its first title
C28_RenderFailedOriginalKept ==
    /\ last.op = "balance"
    /\ last.key[Len(last.key)] = "Weekly Benefits"
    /\ last.ret = "False"
    /\ last.strategy >= 1
    /\ "render" \in last.faults
    /\ deposit_withdrawal_file \in DOMAIN fs.books
    /\ fs.books[deposit_withdrawal_file] = FullDisk.books[deposit_withdrawal_file]

\* the sheet of the Deposit & Withdrawal workbook on the disk f that
\* _create_benefits_worksheet_pdf updates
BenefitsSheetOn(f) == SheetOf(f.books[deposit_withdrawal_file], "BENEFITS")
\* the row at which a call with the dataset d starts its insertion
InsertionRow(w, d) ==
    benefits_start_row(benefits_stamp(benefits_title(w, "Weekly Benefits"), Timestamp),
                       BenefitsFirstRow, Len(d.cols))
\* the largest number of rows of a dataset a caller passes
LongestFrame == Max({Len(d.rows) : d \in CallFrames})
\* the cells from row `from` on hold in w2 what they hold in w1
SameBelow(w1, w2, from) ==
    \A p \in DOMAIN Contents(w1) \cup DOMAIN Contents(w2) :
        p[1] >= from => Value(w1, p[1], p[2]) = Value(w2, p[1], p[2])
\* every value of w2 from row `from` on was in w1 already
NoValueAddedBelow(w1, w2, from) ==
    \A p \in DOMAIN Contents(w2) :
        p[1] >= from => Value(w1, p[1], p[2]) = Value(w2, p[1], p[2])
InsertionInRange ==
    \A d \in CallFrames :
        InsertionRow(BenefitsSheetOn(fs), d) \in BenefitsFirstRow..(BenefitsRowLimit - 1)

\* C29 (as stated): the insertion row of a call of
\* _create_benefits_worksheet_pdf is one of 6..14, and the call leaves every
\* cell below row 14 + n as it was, n the largest number of rows of a dataset.
C29_NothingBelowInsertionLimit ==
    [][BenefitsCalled
           => /\ InsertionInRange
              /\ SameBelow(BenefitsSheetOn(fs), BenefitsSheetOn(fs'),
                           BenefitsRowLimit + LongestFrame)]_vars

\* C29 (amended): the insertion row is one of 6..14; a call stores no value
\* below row 14 + n, but it clears the rows down to row 14 + n + 4, and only
\* the cells below that row are left as they were.  The rows holding values
\* stay bounded over repeated calls.
C29_NothingBelowClearedArea ==
    [][BenefitsCalled
           => /\ InsertionInRange
              /\ NoValueAddedBelow(BenefitsSheetOn(fs), BenefitsSheetOn(fs'),
                                   BenefitsRowLimit + LongestFrame)
              /\ SameBelow(BenefitsSheetOn(fs), BenefitsSheetOn(fs'),
                           BenefitsRowLimit + LongestFrame + BenefitsClearMargin - 1)]_vars

\* after repeated calls the column names stand in row 14 and the dataset's
\* row in row 15
C29_InsertedAtRowFourteen ==
    /\ deposit_withdrawal_file \in DOMAIN fs.books
    /\ Value(BenefitsSheetOn(fs), BenefitsRowLimit - 1, 1) = StrV(OneClient.cols[1])
    /\ Value(BenefitsSheetOn(fs), BenefitsRowLimit, 1) = OneClient.rows[1][1]

(***************************************************************************)
(* Properties of _add_processing_notes (checked under SpecMut).            *)
(***************************************************************************)
\* the cells whose value differs between w1 and w2
ChangedCells(w1, w2) ==
    {p \in DOMAIN w1 \cup DOMAIN w2 : Value(w1, p[1], p[2]) # Value(w2, p[1], p[2])}
\* every cell of the notes block holds a value
NotesBlockOccupied(w) == \A p \in NotesBlock : Value(w, p[1], p[2]) # NoneV

\* C30 (as stated): a call of _add_processing_notes changes at most one cell,
\* a cell of rows 1..5, columns H..L that held no value; with all 25 cells
\* of the block holding a value it changes nothing.
C30_NoteOnlyInEmptyCell ==
    [][(mpc = "notes" /\ mpc' = "saved")
           => /\ Cardinality(ChangedCells(ws, ws')) <= 1
              /\ ChangedCells(ws, ws') \subseteq NotesBlock
              /\ \A p \in ChangedCells(ws, ws') : Value(ws, p[1], p[2]) = NoneV
              /\ NotesBlockOccupied(ws) => ChangedCells(ws, ws') = {}]_vars

=============================================================================
